---- MODULE Spec2Model ----
(***************************************************************************)
(* A model of the Lod repository (inflance/Lod): the mesh operations       *)
(* (core/Mesh.cpp), the octree partitioner and the LOD builders            *)
(* (core/Geometry.cpp, core/LodAlgorithm.cpp), the 3D-Tiles exporter       *)
(* (io/TilesExporter.cpp) and the pipeline driver                          *)
(* (pipeline/LodPipeline.cpp, app/main.cpp).                               *)
(*                                                                         *)
(* Coordinates are floats in the source.  The model keeps them on an       *)
(* integer grid whose step is a power of two, so that every centre         *)
(* (min + max) * 0.5 the partitioner computes within the modelled depth    *)
(* is exact, as it is in binary floating point for such inputs.            *)
(* Ratios and errors (doubles) are exact rationals <<num, den>>.           *)
(***************************************************************************)
EXTENDS Integers, Sequences, FiniteSets, TLC

VARIABLES
    meshOp,      \* Mesh spec: the operation applied ("subset", "merge", "simplify") and its phase
    meshIn,      \* Mesh spec: the list of input meshes
    triangleIds, \* Mesh spec: the triangle-id list handed to Mesh::subset
    otherIds,    \* Mesh spec: the second triangle-id list of a subset/merge round trip
    kernelCalls, \* Mesh spec: how many times the operation called meshopt_simplify
    target,      \* Mesh spec: targetTriangleCount handed to simplifyMesh
    collapses,   \* the edge collapses the simplification kernel (meshopt_simplify) performs
    oobRead,     \* Mesh spec: what a read past the end of indices_ yields (undefined behaviour)
    meshOut,     \* Mesh spec: the mesh returned
    lodOp,       \* Lod spec: the operation called ("octree", "hierarchy", "subdivide", ...) and its phase
    lodMesh,     \* Lod spec: the input mesh
    lodBounds,   \* Lod spec: the bounds variant handed to buildLodHierarchy
    lodConfig,   \* Lod spec: the LodConfig
    octreeOut,   \* Lod spec: what buildOctree returned (<<>> for nullptr)
    lodOut,      \* Lod spec: what buildLodHierarchy returned (<<>> for nullptr)
    subdivided,  \* Lod spec: the array subdivide() returned
    pc,          \* pipeline: where main / LodPipeline::execute stands
    opts,        \* pipeline: the parsed command line
    config_,     \* pipeline: the PipelineConfig (<<>> until it is built)
    validation,  \* pipeline: what validateConfig returned ("none" until it is called)
    loaded,      \* pipeline: the <<mesh, bounds>> the reader yields for the input
    stagesCalled,\* pipeline: the stages execute has invoked, in order
    stageError,  \* pipeline: the PipelineError the last stage returned ("none" if it succeeded)
    progress,    \* pipeline: the values handed to updateProgress, in tenths
    result,      \* pipeline: the PipelineResult
    tree,        \* pipeline: result.lodHierarchy (<<>> for a null root)
    writes,      \* pipeline: the files created in the output directory, in order
    exportLog,   \* pipeline: what each exporter call returned
    exitCode,    \* pipeline: the exit code of the process ("none" while running)
    tileTree,    \* tileset spec: the LOD tree handed to the 3D-Tiles exporter
    manifests,   \* tileset spec: the tileset.json content each execution so far has written
    exported,    \* tileset spec: what one exportTileset wrote (<<>> before it ran)
    crsOp,       \* CRS spec: the factory function called and its phase
    crsCode,     \* CRS spec: the code string handed over, one character per entry
    crsOut       \* CRS spec: the std::optional<CRS> returned (<<>> for nullopt)

meshVars == <<meshOp, meshIn, triangleIds, otherIds, kernelCalls, target, oobRead, meshOut>>

lodVars == <<lodOp, lodMesh, lodBounds, lodConfig, octreeOut, lodOut, subdivided>>

pipeVars ==
    <<pc, opts, config_, validation, loaded, stagesCalled, stageError, progress, result, tree, writes, exportLog,
      exitCode>>

tileVars == <<tileTree, manifests, exported>>

crsVars == <<crsOp, crsCode, crsOut>>

vars == <<meshVars, collapses, lodVars, pipeVars, tileVars, crsVars>>

----------------------------------------------------------------------------
(* Bounds of the model *)

MaxVerts == 5          \* vertices in an input mesh
MaxTris == 2           \* triangles in an input index buffer
MaxIdList == 2         \* length of a triangle-id list
MaxMeshes == 2         \* meshes in a merge list
MaxCollapses == 1      \* edge collapses the kernel performs in one call
MaxOctreeDepth == 2    \* OctreeConfig::maxDepth values explored
MaxHeapBase == 2       \* heap layouts (base addresses of the nodes) an execution can meet

\* Index = uint32_t: a value is kept as two 16-bit limbs <<hi, lo>> where it can wrap
Limb == 65536

\* the grid step: MaxOctreeDepth + 1 halvings of 4 * Unit stay integral
Unit == 2 ^ MaxOctreeDepth

----------------------------------------------------------------------------
(* Small helpers *)

Range(s) == {s[i] : i \in 1..Len(s)}

\* iteration order of a std::set<Index>: ascending (the i-th element has i-1 below it)
SetToSortedSeq(S) ==
    [i \in 1..Cardinality(S) |-> CHOOSE x \in S : Cardinality({y \in S : y < x}) = i - 1]

\* all sequences over S of length 0..n
SeqsUpTo(S, n) == UNION {[1..k -> S] : k \in 0..n}

\* position (1-based) of x in a sequence s without repetitions
IndexOf(s, x) == CHOOSE i \in 1..Len(s) : s[i] = x

RECURSIVE Flatten(_)
\* the concatenation of a sequence of sequences
Flatten(ss) ==
    IF Len(ss) = 0 THEN <<>>
    ELSE IF Len(ss) = 1 THEN ss[1]
    ELSE LET h == Len(ss) \div 2
         IN  Flatten(SubSeq(ss, 1, h)) \o Flatten(SubSeq(ss, h + 1, Len(ss)))

Min2(a, b) == IF a <= b THEN a ELSE b
Max2(a, b) == IF a >= b THEN a ELSE b

----------------------------------------------------------------------------
(* core/Mesh.hpp : VertexAttributes and Mesh *)

Mesh(positions, normals, texCoords, colors, indices) ==
    [positions |-> positions, normals |-> normals, texCoords |-> texCoords,
     colors |-> colors, indices |-> indices]

EmptyMesh == Mesh(<<>>, <<>>, <<>>, <<>>, <<>>)

vertexCount(m) == Len(m.positions)
triangleCount(m) == Len(m.indices) \div 3
empty(m) == Len(m.positions) = 0 \/ Len(m.indices) = 0

\* triIndex * 3 + k in uint32_t arithmetic, as limbs <<hi, lo>>
TriSlot(triIndex, k) ==
    LET lo == 3 * (triIndex % Limb) + k
        hi == 3 * (triIndex \div Limb) + lo \div Limb
    IN  <<hi % Limb, lo % Limb>>

\* slot < indices_.size()
SlotInRange(m, slot) == slot[1] = 0 /\ slot[2] < Len(m.indices)

\* the guard "triIndex * 3 + 2 < indices_.size()"
TriInRange(m, triIndex) == SlotInRange(m, TriSlot(triIndex, 2))

\* indices_[triIndex * 3 + k]; past the end of the vector the read is undefined
\* behaviour and yields oob, whatever the memory holds
TriCorner(m, triIndex, k, oob) ==
    IF SlotInRange(m, TriSlot(triIndex, k))
    THEN m.indices[TriSlot(triIndex, k)[2] + 1]
    ELSE oob

\* a guarded triangle id whose first corner is read past the end of indices_
ReadsPastEnd(m, tris) ==
    \E i \in 1..Len(tris) :
        TriInRange(m, tris[i]) /\ \E k \in 0..1 : ~SlotInRange(m, TriSlot(tris[i], k))

\* mutant of usedVertices: every vertex of the source counts as referenced
usedVerticesWhole(m, tris, oob) == 0..(vertexCount(m) - 1)

\* first loop of Mesh::subset: the std::set of referenced vertex indices
usedVertices(m, tris, oob) ==
    UNION {{TriCorner(m, tris[i], 0, oob), TriCorner(m, tris[i], 1, oob),
            TriCorner(m, tris[i], 2, oob)} :
           i \in {j \in 1..Len(tris) : TriInRange(m, tris[j])}}

\* second loop: the old indices that get a new index, in ascending order
vertexRemap(m, tris, oob) ==
    SelectSeq(SetToSortedSeq(usedVertices(m, tris, oob)), LAMBDA o : o < vertexCount(m))

\* one attribute array of newVertices: copied for each remapped vertex the array covers
SubsetAttr(attr, kept) ==
    LET have == SelectSeq(kept, LAMBDA o : o < Len(attr))
    IN  [i \in 1..Len(have) |-> attr[have[i] + 1]]

\* the listed triangles the third loop of Mesh::subset keeps: in range, and
\* all three corners remapped
KeptTriangles(m, tris, kept, oob) ==
    SelectSeq(tris, LAMBDA t : /\ TriInRange(m, t)
                               /\ \A k \in 0..2 : TriCorner(m, t, k, oob) \in Range(kept))

\* mutant of SubsetIndices: the kept triangles keep their old vertex indices
SubsetIndicesNoRemap(m, tris, kept, oob) ==
    LET ok == KeptTriangles(m, tris, kept, oob)
    IN  Flatten([i \in 1..Len(ok) |->
                    << TriCorner(m, ok[i], 0, oob), TriCorner(m, ok[i], 1, oob),
                       TriCorner(m, ok[i], 2, oob) >>])

\* third loop: the triangles whose three corners were remapped, re-indexed
SubsetIndices(m, tris, kept, oob) ==
    LET ok == KeptTriangles(m, tris, kept, oob)
    IN  Flatten([i \in 1..Len(ok) |->
                    << IndexOf(kept, TriCorner(m, ok[i], 0, oob)) - 1,
                       IndexOf(kept, TriCorner(m, ok[i], 1, oob)) - 1,
                       IndexOf(kept, TriCorner(m, ok[i], 2, oob)) - 1 >>])

\* Mesh::subset, with oob what a read past the end of indices_ yields
subsetOob(m, tris, oob) ==
    IF tris = <<>> \/ m.indices = <<>> THEN EmptyMesh
    ELSE LET kept == vertexRemap(m, tris, oob)
         IN  Mesh(SubsetAttr(m.positions, kept), SubsetAttr(m.normals, kept),
                  SubsetAttr(m.texCoords, kept), SubsetAttr(m.colors, kept),
                  SubsetIndices(m, tris, kept, oob))

\* Mesh::subset on triangle ids that read nothing past the end
subset(m, tris) == subsetOob(m, tris, 0)

RECURSIVE MergeFromNoOffset(_, _, _)
\* mutant of MergeFrom: the indices are copied without the vertex offset
MergeFromNoOffset(meshes, acc, vertexOffset) ==
    IF meshes = <<>> THEN acc
    ELSE LET m == Head(meshes)
         IN  MergeFromNoOffset(Tail(meshes),
                 Mesh(acc.positions \o m.positions, acc.normals \o m.normals,
                      acc.texCoords \o m.texCoords, acc.colors \o m.colors,
                      acc.indices \o m.indices),
                 vertexOffset + vertexCount(m))

RECURSIVE MergeFrom(_, _, _)
\* the loop of Mesh::merge: acc is the merged mesh so far, vertexOffset the running
\* offset (uint32_t; the modelled vertex counts are far from wrapping it)
MergeFrom(meshes, acc, vertexOffset) ==
    IF meshes = <<>> THEN acc
    ELSE LET m == Head(meshes)
         IN  MergeFrom(Tail(meshes),
                 Mesh(acc.positions \o m.positions, acc.normals \o m.normals,
                      acc.texCoords \o m.texCoords, acc.colors \o m.colors,
                      acc.indices \o [i \in 1..Len(m.indices) |->
                                         m.indices[i] + vertexOffset]),
                 vertexOffset + vertexCount(m))

\* Mesh::merge
merge(meshes) ==
    IF meshes = <<>> THEN EmptyMesh
    ELSE IF Len(meshes) = 1 THEN meshes[1]
    ELSE MergeFrom(meshes, EmptyMesh, 0)

----------------------------------------------------------------------------
(* core/LodAlgorithm.cpp : simplifyMesh and the kernel it calls *)

\* one edge collapse v -> u on an index buffer: v is rewritten to u and the
\* triangles that become degenerate are dropped
CollapseEdge(indices, v, u) ==
    LET r(x) == IF x = v THEN u ELSE x
        moved == [t \in 1..(Len(indices) \div 3) |->
                     <<r(indices[3*t - 2]), r(indices[3*t - 1]), r(indices[3*t])>>]
    IN  Flatten(SelectSeq(moved, LAMBDA tri : tri[1] # tri[2] /\ tri[2] # tri[3]
                                              /\ tri[1] # tri[3]))

\* v and u are the ends of an edge of some triangle
IsEdge(indices, v, u) ==
    \E t \in 0..(Len(indices) \div 3 - 1) :
        LET tri == {indices[3*t + 1], indices[3*t + 2], indices[3*t + 3]}
        IN  v \in tri /\ u \in tri /\ v # u

\* the kernel's choice that stands for a call that reports zero indices
KernelReportsZero == << <<-1, -1>> >>

RECURSIVE meshopt_simplify(_, _, _)
\* the external kernel as simplifyMesh calls it: edge collapses (which ones is
\* the kernel's choice, cs) are applied while the index count exceeds the target;
\* the result indexes the input's vertices and is never longer than the input
meshopt_simplify(indices, targetIndexCount, cs) ==
    IF cs = KernelReportsZero THEN <<>>
    ELSE IF Len(indices) <= targetIndexCount \/ cs = <<>> THEN indices
    ELSE LET v == Head(cs)[1]
             u == Head(cs)[2]
         IN  IF IsEdge(indices, v, u)
             THEN meshopt_simplify(CollapseEdge(indices, v, u), targetIndexCount, Tail(cs))
             ELSE meshopt_simplify(indices, targetIndexCount, Tail(cs))

\* the calls of meshopt_simplify one call of simplifyMesh makes
simplifyMeshKernelCalls(m, targetTriangleCount) ==
    IF empty(m) \/ triangleCount(m) <= targetTriangleCount THEN 0 ELSE 1

\* simplifyMesh: the vertex arrays are copied whole, the indices are the kernel's
simplifyMesh(m, targetTriangleCount, cs) ==
    IF empty(m) \/ triangleCount(m) <= targetTriangleCount THEN m
    ELSE [m EXCEPT !.indices = meshopt_simplify(m.indices, targetTriangleCount * 3, cs)]

\* the distinct values of an index buffer in the order of their first use
FirstUse(indices) ==
    LET first == SetToSortedSeq({i \in 1..Len(indices) :
                                    \A j \in 1..(i - 1) : indices[j] # indices[i]})
    IN  [k \in 1..Len(first) |-> indices[first[k]]]

\* simplified_indices after resize(result_count): the vector was made with
\* targetIndexCount elements, a longer result is filled up with zeros
ResizedIndices(written, targetIndexCount) ==
    [i \in 1..Len(written) |-> IF i <= targetIndexCount THEN written[i] ELSE 0]

\* TriangleCountStrategy::simplify(mesh, config) with config.targetTriangleCount:
\* an error for an empty mesh, the mesh itself at or above its size, else the
\* kernel's indices over the vertices they use, renumbered in order of first use
strategySimplify(m, targetTriangleCount, cs) ==
    IF empty(m)
    THEN [error |-> "Cannot simplify empty mesh", mesh |-> EmptyMesh, kernelCalls |-> 0]
    ELSE IF targetTriangleCount >= triangleCount(m)
    THEN [error |-> "", mesh |-> m, kernelCalls |-> 0]
    ELSE LET simplified == ResizedIndices(meshopt_simplify(m.indices, targetTriangleCount * 3, cs),
                                          targetTriangleCount * 3)
             used == FirstUse(simplified)
         IN  [error |-> "",
              mesh |-> Mesh(SubsetAttr(m.positions, used), SubsetAttr(m.normals, used),
                            <<>>, <<>>,
                            [i \in 1..Len(simplified) |-> IndexOf(used, simplified[i]) - 1]),
              kernelCalls |-> 1]

----------------------------------------------------------------------------
(* core/Geometry.hpp : BoundingBox *)

BoundingBox(min, max) == [min |-> min, max |-> max]

size(b) == <<b.max[1] - b.min[1], b.max[2] - b.min[2], b.max[3] - b.min[3]>>

\* (min + max) * 0.5f, exact on the grid
center(b) ==
    <<(b.min[1] + b.max[1]) \div 2, (b.min[2] + b.max[2]) \div 2, (b.min[3] + b.max[3]) \div 2>>

volume(b) == size(b)[1] * size(b)[2] * size(b)[3]

emptyBox(b) == \E a \in 1..3 : b.min[a] >= b.max[a]

contains(b, point) == \A a \in 1..3 : point[a] >= b.min[a] /\ point[a] <= b.max[a]

intersects(b, other) == ~(\E a \in 1..3 : b.max[a] < other.min[a] \/ b.min[a] > other.max[a])

\* mutant of subdivide: the second and the third octant change places
subdivideYBeforeX(b) ==
    LET c == center(b)
        lo == b.min
        hi == b.max
    IN  << BoundingBox(lo, c),
           BoundingBox(<<lo[1], c[2], lo[3]>>, <<c[1], hi[2], c[3]>>),
           BoundingBox(<<c[1], lo[2], lo[3]>>, <<hi[1], c[2], c[3]>>),
           BoundingBox(<<c[1], c[2], lo[3]>>, <<hi[1], hi[2], c[3]>>),
           BoundingBox(<<lo[1], lo[2], c[3]>>, <<c[1], c[2], hi[3]>>),
           BoundingBox(<<c[1], lo[2], c[3]>>, <<hi[1], c[2], hi[3]>>),
           BoundingBox(<<lo[1], c[2], c[3]>>, <<c[1], hi[2], hi[3]>>),
           BoundingBox(c, hi) >>

\* BoundingBox::subdivide: the 8 octants in the order of the source
subdivide(b) ==
    LET c == center(b)
        lo == b.min
        hi == b.max
    IN  << BoundingBox(lo, c),
           BoundingBox(<<c[1], lo[2], lo[3]>>, <<hi[1], c[2], c[3]>>),
           BoundingBox(<<lo[1], c[2], lo[3]>>, <<c[1], hi[2], c[3]>>),
           BoundingBox(<<c[1], c[2], lo[3]>>, <<hi[1], hi[2], c[3]>>),
           BoundingBox(<<lo[1], lo[2], c[3]>>, <<c[1], c[2], hi[3]>>),
           BoundingBox(<<c[1], lo[2], c[3]>>, <<hi[1], c[2], hi[3]>>),
           BoundingBox(<<lo[1], c[2], c[3]>>, <<c[1], hi[2], hi[3]>>),
           BoundingBox(c, hi) >>

MinOf(S) == CHOOSE x \in S : \A y \in S : x <= y
MaxOf(S) == CHOOSE x \in S : \A y \in S : x >= y

\* the bounding box of a set of points
BoxOfPoints(P) ==
    BoundingBox([a \in 1..3 |-> MinOf({q[a] : q \in P})],
                [a \in 1..3 |-> MaxOf({q[a] : q \in P})])

\* computeBoundingBox: over every vertex of the buffer, referenced or not
computeBoundingBox(m) ==
    IF m.positions = <<>> THEN BoundingBox(<<0, 0, 0>>, <<0, 0, 0>>)
    ELSE BoxOfPoints(Range(m.positions))

\* the three corner positions of triangle i (in range) of mesh m
TriangleOf(m, i) ==
    <<m.positions[m.indices[3*i + 1] + 1], m.positions[m.indices[3*i + 2] + 1],
      m.positions[m.indices[3*i + 3] + 1]>>

computeTriangleBounds(triangle) == BoxOfPoints(Range(triangle))

\* triangleIntersectsBounds: the box test decides; past it every path returns true
triangleIntersectsBounds(triangle, bounds) ==
    IF ~intersects(bounds, computeTriangleBounds(triangle)) THEN FALSE
    ELSE IF \E k \in 1..3 : contains(bounds, triangle[k]) THEN TRUE
    ELSE TRUE

----------------------------------------------------------------------------
(* core/Geometry.cpp : buildOctree *)

\* an absent child (nullptr) is <<>>, a present one <<node>>
NoChildren == [i \in 1..8 |-> <<>>]

OctreeNode(bounds, triangleIndices, depth) ==
    [bounds |-> bounds, triangleIndices |-> triangleIndices, children |-> NoChildren,
     depth |-> depth]

OctreeConfig(maxTrianglesPerNode, maxDepth, minNodeSize) ==
    [maxTrianglesPerNode |-> maxTrianglesPerNode, maxDepth |-> maxDepth,
     minNodeSize |-> minNodeSize]

\* OctreeConfig{}: 1000 triangles, depth 8, minNodeSize 0.001f
DefaultOctreeConfig == OctreeConfig(1000, 8, <<1, 1000>>)

isLeafOctree(node) == \A i \in 1..8 : node.children[i] = <<>>

\* node.bounds.volume() < minNodeSize^3 with minNodeSize = <<num, den>>: for the
\* integral volumes of the grid, v * den^3 < num^3 iff v <= (num^3 - 1) \div den^3
BelowMinNodeSize(b, minNodeSize) ==
    volume(b) <= (minNodeSize[1] * minNodeSize[1] * minNodeSize[1] - 1)
                     \div (minNodeSize[2] * minNodeSize[2] * minNodeSize[2])

\* the triangles of the node that the test assigns to one child box
childTriangles(m, node, childBound) ==
    SelectSeq(node.triangleIndices,
              LAMBDA triIdx : /\ 3 * triIdx + 2 < Len(m.indices)
                              /\ triangleIntersectsBounds(TriangleOf(m, triIdx), childBound))

RECURSIVE subdivideNodeKeepsList(_, _, _)
\* mutant of subdivideNode: a node that got children keeps its triangle list
subdivideNodeKeepsList(m, config, node) ==
    IF \/ Len(node.triangleIndices) <= config.maxTrianglesPerNode
       \/ node.depth >= config.maxDepth
       \/ BelowMinNodeSize(node.bounds, config.minNodeSize)
    THEN node
    ELSE LET childBounds == subdivide(node.bounds)
             kids == [childIdx \in 1..8 |->
                        LET tris == childTriangles(m, node, childBounds[childIdx])
                        IN  IF tris = <<>> THEN <<>>
                            ELSE <<subdivideNodeKeepsList(m, config,
                                       OctreeNode(childBounds[childIdx], tris, node.depth + 1))>>]
         IN  [node EXCEPT !.children = kids]

RECURSIVE subdivideNode(_, _, _)
\* the lambda subdivideNode of buildOctree, returning the node it leaves behind
subdivideNode(m, config, node) ==
    IF \/ Len(node.triangleIndices) <= config.maxTrianglesPerNode
       \/ node.depth >= config.maxDepth
       \/ BelowMinNodeSize(node.bounds, config.minNodeSize)
    THEN node
    ELSE LET childBounds == subdivide(node.bounds)
             kids == [childIdx \in 1..8 |->
                        LET tris == childTriangles(m, node, childBounds[childIdx])
                        IN  IF tris = <<>> THEN <<>>
                            ELSE <<subdivideNode(m, config,
                                       OctreeNode(childBounds[childIdx], tris, node.depth + 1))>>]
             hasChildren == \E i \in 1..8 : kids[i] # <<>>
         IN  [node EXCEPT !.children = kids,
                          !.triangleIndices = IF hasChildren THEN <<>> ELSE @]

\* buildOctree(mesh, config): <<>> is nullptr, <<root>> the tree
buildOctree(m, config) ==
    IF empty(m) THEN <<>>
    ELSE LET rootBounds == computeBoundingBox(m)
         IN  IF emptyBox(rootBounds) THEN <<>>
             ELSE <<subdivideNode(m, config,
                        OctreeNode(rootBounds, [i \in 1..triangleCount(m) |-> i - 1], 0))>>

\* the legacy Octree: the children present, in the order they were pushed
Octree(bounds, triangleIndices, depth, children) ==
    [bounds |-> bounds, triangleIndices |-> triangleIndices, depth |-> depth,
     children |-> children]

\* three times the triangleCenters entry of triangle i: the sum of the corners
\* (the division by 3.0f is carried into the comparisons)
triangleCenterSum(m, i) ==
    LET tri == TriangleOf(m, i)
    IN  [a \in 1..3 |-> tri[1][a] + tri[2][a] + tri[3][a]]

\* the childIndex the legacy buildNode computes for a triangle centre
childIndexOf(centerSum, c) ==
    (IF centerSum[1] >= 3 * c[1] THEN 1 ELSE 0)
    + (IF centerSum[2] >= 3 * c[2] THEN 2 ELSE 0)
    + (IF centerSum[3] >= 3 * c[3] THEN 4 ELSE 0)

RECURSIVE buildNode(_, _, _, _, _, _)
\* the lambda buildNode of the legacy buildOctree(mesh, maxDepth, maxTrianglesPerNode)
buildNode(m, bounds, triangleIndices, depth, maxDepth, maxTrianglesPerNode) ==
    IF depth >= maxDepth \/ Len(triangleIndices) <= maxTrianglesPerNode
    THEN Octree(bounds, triangleIndices, depth, <<>>)
    ELSE LET c == center(bounds)
             childBounds == subdivide(bounds)
             childTris == [i \in 0..7 |->
                             SelectSeq(triangleIndices,
                                       LAMBDA triIdx :
                                           childIndexOf(triangleCenterSum(m, triIdx), c) = i)]
             kids == [i \in 1..8 |->
                        IF childTris[i - 1] = <<>> THEN <<>>
                        ELSE <<buildNode(m, childBounds[i], childTris[i - 1], depth + 1,
                                         maxDepth, maxTrianglesPerNode)>>]
         IN  Octree(bounds, triangleIndices, depth, Flatten(kids))

\* the legacy buildOctree: <<>> is the error return, <<root>> the one tree returned
buildOctreeLegacy(m, maxDepth, maxTrianglesPerNode) ==
    IF m.positions = <<>> \/ m.indices = <<>> THEN <<>>
    ELSE <<buildNode(m, computeBoundingBox(m), [i \in 1..triangleCount(m) |-> i - 1], 0,
                     maxDepth, maxTrianglesPerNode)>>

RECURSIVE LeafTriangles(_)
\* OctreeNode::traverse collecting the triangle lists of the leaves, in visit order
LeafTriangles(node) ==
    IF isLeafOctree(node) THEN node.triangleIndices
    ELSE LET F[i \in 0..8] ==
                 IF i = 0 THEN <<>>
                 ELSE F[i-1] \o (IF node.children[i] = <<>> THEN <<>>
                                 ELSE LeafTriangles(node.children[i][1]))
         IN  F[8]

RECURSIVE OctreeLeaves(_)
\* OctreeNode::traverse collecting the leaves themselves, in visit order
OctreeLeaves(node) ==
    IF isLeafOctree(node) THEN <<node>>
    ELSE Flatten([i \in 1..8 |-> IF node.children[i] = <<>> THEN <<>>
                                 ELSE OctreeLeaves(node.children[i][1])])

----------------------------------------------------------------------------
(* core/Geometry.cpp : buildGeometricLod, splitMeshByBounds *)

\* a double kept as an exact fraction <<num, den>>, den > 0
Zero == <<0, 1>>
RatLeq(a, b) == a[1] * b[2] <= b[1] * a[2]
Abs(x) == IF x < 0 THEN -x ELSE x

\* GeometricLodNode; geometricError is 0.0 unless assigned
GeometricLodNode(bounds, lodLevel, mesh, geometricError, children) ==
    [bounds |-> bounds, children |-> children, mesh |-> mesh, lodLevel |-> lodLevel,
     geometricError |-> geometricError]

RECURSIVE buildLodFromOctree(_, _, _)
\* the lambda buildLodFromOctree of buildGeometricLod
buildLodFromOctree(m, octreeNode, lodLevel) ==
    IF isLeafOctree(octreeNode)
    THEN GeometricLodNode(octreeNode.bounds, lodLevel,
                          IF octreeNode.triangleIndices # <<>>
                          THEN subset(m, octreeNode.triangleIndices) ELSE EmptyMesh,
                          Zero, <<>>)
    ELSE LET allTriangles == LeafTriangles(octreeNode)
             kids == [i \in 1..8 |->
                        IF octreeNode.children[i] = <<>> THEN <<>>
                        ELSE LET childLodNode ==
                                     buildLodFromOctree(m, octreeNode.children[i][1], lodLevel + 1)
                             IN  IF ~empty(childLodNode.mesh) THEN <<childLodNode>> ELSE <<>>]
         IN  GeometricLodNode(octreeNode.bounds, lodLevel,
                              IF allTriangles # <<>> THEN subset(m, allTriangles) ELSE EmptyMesh,
                              Zero, Flatten(kids))

\* buildGeometricLod: <<>> is nullptr; the tree is the one built from the octree root
buildGeometricLod(m, octreeConfig) ==
    IF empty(m) THEN <<>>
    ELSE LET octree == buildOctree(m, octreeConfig)
         IN  IF octree = <<>> THEN <<>>
             ELSE <<buildLodFromOctree(m, octree[1], 0)>>

\* ids of the triangles of m the test assigns to one box, ascending
trianglesInBound(m, bound) ==
    SelectSeq([i \in 1..triangleCount(m) |-> i - 1],
              LAMBDA i : /\ 3 * i + 2 < Len(m.indices)
                         /\ triangleIntersectsBounds(TriangleOf(m, i), bound))

\* splitMeshByBounds: one <<subMesh, bound>> per box that receives a triangle
splitMeshByBounds(m, bounds) ==
    Flatten([b \in 1..Len(bounds) |->
                LET triangleIndices == trianglesInBound(m, bounds[b])
                IN  IF triangleIndices # <<>>
                    THEN << <<subset(m, triangleIndices), bounds[b]>> >>
                    ELSE <<>>])

----------------------------------------------------------------------------
(* geo/GeoBBox.hpp *)

GeoBBox(minLon, minLat, maxLon, maxLat) ==
    [minLon |-> minLon, minLat |-> minLat, maxLon |-> maxLon, maxLat |-> maxLat]

width(r) == r.maxLon - r.minLon
height(r) == r.maxLat - r.minLat
centerLon(r) == (r.minLon + r.maxLon) \div 2
centerLat(r) == (r.minLat + r.maxLat) \div 2
emptyRegion(r) == width(r) <= 0 \/ height(r) <= 0

containsLonLat(r, lon, lat) ==
    lon >= r.minLon /\ lon <= r.maxLon /\ lat >= r.minLat /\ lat <= r.maxLat

\* mutant of subdivideGeo: the eastern rectangles reach past the parent
subdivideGeoWide(r) ==
    LET midLon == centerLon(r)
        midLat == centerLat(r)
    IN  << GeoBBox(r.minLon, r.minLat, midLon, midLat),
           GeoBBox(midLon, r.minLat, r.maxLon + width(r), midLat),
           GeoBBox(r.minLon, midLat, midLon, r.maxLat),
           GeoBBox(midLon, midLat, r.maxLon + width(r), r.maxLat) >>

\* GeoBBox::subdivide: SW, SE, NW, NE
subdivideGeo(r) ==
    LET midLon == centerLon(r)
        midLat == centerLat(r)
    IN  << GeoBBox(r.minLon, r.minLat, midLon, midLat),
           GeoBBox(midLon, r.minLat, r.maxLon, midLat),
           GeoBBox(r.minLon, midLat, midLon, r.maxLat),
           GeoBBox(midLon, midLat, r.maxLon, r.maxLat) >>

----------------------------------------------------------------------------
(* core/LodAlgorithm.cpp : the strategies *)

\* the least target of TriangleCountStrategy
MinTargetTriangles == 100
\* the least target of ScreenSpaceErrorStrategy
MinTargetScreenSpace == 50
\* the least target of VolumeBasedStrategy
MinTargetVolume == 10

\* an ILodStrategy: its class and its members (those of the other classes unused)
LodStrategy(kind, maxTrianglesPerTile, reductionRatio, maxScreenSpaceError, minVolumeThreshold) ==
    [kind |-> kind, maxTrianglesPerTile |-> maxTrianglesPerTile,
     reductionRatio |-> reductionRatio, maxScreenSpaceError |-> maxScreenSpaceError,
     minVolumeThreshold |-> minVolumeThreshold]

TriangleCountStrategy(maxTrianglesPerTile, reductionRatio) ==
    LodStrategy("TriangleCount", maxTrianglesPerTile, reductionRatio, 0, Zero)

ScreenSpaceErrorStrategy(maxScreenSpaceError) ==
    LodStrategy("ScreenSpaceError", 0, Zero, maxScreenSpaceError, Zero)

VolumeBasedStrategy(minVolumeThreshold, reductionRatio) ==
    LodStrategy("VolumeBased", 0, reductionRatio, 0, minVolumeThreshold)

\* static_cast<size_t>(count * pow(ratio, level)), exact for the dyadic ratios modelled
ScaledCount(count, ratio, lodLevel) == (count * ratio[1] ^ lodLevel) \div (ratio[2] ^ lodLevel)

targetTriangleCount(strategy, m, lodLevel) ==
    CASE strategy.kind = "TriangleCount" ->
            Max2(ScaledCount(triangleCount(m), strategy.reductionRatio, lodLevel),
                 MinTargetTriangles)
      [] strategy.kind = "ScreenSpaceError" ->
            Max2(triangleCount(m) \div (2 ^ lodLevel), MinTargetScreenSpace)
      [] strategy.kind = "VolumeBased" ->
            Max2(ScaledCount(triangleCount(m), strategy.reductionRatio, lodLevel),
                 MinTargetVolume)

computeGeometricError(strategy, original, simplified) ==
    CASE strategy.kind = "TriangleCount" ->
            IF triangleCount(original) = 0 THEN Zero
            ELSE <<(triangleCount(original) - triangleCount(simplified)) * 100,
                   triangleCount(original)>>
      [] strategy.kind = "ScreenSpaceError" ->
            IF triangleCount(original) = 0 THEN Zero
            ELSE LET originalSize == size(computeBoundingBox(original))
                     simplifiedSize == size(computeBoundingBox(simplified))
                     maxDiff == MaxOf({0} \cup {Abs(originalSize[i] - simplifiedSize[i]) :
                                                  i \in 1..3})
                 IN  <<maxDiff * strategy.maxScreenSpaceError, 1>>
      [] strategy.kind = "VolumeBased" ->
            LET originalVolume == volume(computeBoundingBox(original))
                simplifiedVolume == volume(computeBoundingBox(simplified))
            IN  IF originalVolume = 0 THEN Zero
                ELSE <<Abs(originalVolume - simplifiedVolume) * 100, originalVolume>>

\* shouldSubdivide(mesh, GeoBBox, level)
shouldSubdivideGeo(strategy, m, region, currentLevel) ==
    CASE strategy.kind = "TriangleCount" ->
            triangleCount(m) > strategy.maxTrianglesPerTile /\ currentLevel < 8
      [] strategy.kind = "ScreenSpaceError" ->
            Max2(width(region), height(region)) * 100 > 1 /\ currentLevel < 10
      [] strategy.kind = "VolumeBased" -> FALSE

\* shouldSubdivide(mesh, BoundingBox, level)
shouldSubdivide(strategy, m, bounds, currentLevel) ==
    CASE strategy.kind = "TriangleCount" ->
            triangleCount(m) > strategy.maxTrianglesPerTile /\ currentLevel < 8
      [] strategy.kind = "ScreenSpaceError" ->
            MaxOf({size(bounds)[i] : i \in 1..3}) > 1 /\ currentLevel < 10
      [] strategy.kind = "VolumeBased" ->
            /\ volume(bounds) * strategy.minVolumeThreshold[2] > strategy.minVolumeThreshold[1]
            /\ currentLevel < 8

----------------------------------------------------------------------------
(* core/LodAlgorithm.cpp : the LOD builders *)

LodConfig(strategy, maxLodLevels, useOctreeSubdivision, octreeConfig) ==
    [strategy |-> strategy, maxLodLevels |-> maxLodLevels,
     useOctreeSubdivision |-> useOctreeSubdivision, octreeConfig |-> octreeConfig]

GeoLodNode(region, lodLevel, mesh, geometricError, children) ==
    [region |-> region, children |-> children, mesh |-> mesh, lodLevel |-> lodLevel,
     geometricError |-> geometricError]

\* splitMeshByRegion: every sub-region is paired with the whole mesh
splitMeshByRegion(m, totalRegion, subRegions) ==
    [r \in 1..Len(subRegions) |-> <<m, subRegions[r]>>]

RECURSIVE buildRecursiveGeo(_, _, _, _)
\* the lambda buildRecursive of buildGeoLodHierarchy, returning the node it completes;
\* cs is what the simplification kernel does when it is called
buildRecursiveGeo(node, depth, config, cs) ==
    IF depth >= config.maxLodLevels THEN node
    ELSE IF ~shouldSubdivideGeo(config.strategy, node.mesh, node.region, depth) THEN node
    ELSE LET subRegions == subdivideGeo(node.region)
             kids == [i \in 1..4 |->
                 LET subMeshes == splitMeshByRegion(node.mesh, node.region, <<subRegions[i]>>)
                 IN  IF subMeshes # <<>> /\ ~empty(subMeshes[1][1])
                     THEN LET targetCount ==
                                  targetTriangleCount(config.strategy, subMeshes[1][1], depth + 1)
                              childMesh == simplifyMesh(subMeshes[1][1], targetCount, cs)
                              childNode ==
                                  GeoLodNode(subRegions[i], depth + 1, childMesh,
                                             computeGeometricError(config.strategy,
                                                                   subMeshes[1][1], childMesh),
                                             <<>>)
                          IN  <<buildRecursiveGeo(childNode, depth + 1, config, cs)>>
                     ELSE <<>>]
         IN  [node EXCEPT !.children = Flatten(kids)]

\* buildGeoLodHierarchy: <<>> is nullptr
buildGeoLodHierarchy(inputMesh, region, config, cs) ==
    IF empty(inputMesh) THEN <<>>
    ELSE <<buildRecursiveGeo(GeoLodNode(region, 0, inputMesh, Zero, <<>>), 0, config, cs)>>

RECURSIVE buildRecursiveGeometricBackwards(_, _, _, _)
\* mutant of buildRecursiveGeometric: the octants are gone through from the last
buildRecursiveGeometricBackwards(node, depth, config, cs) ==
    IF depth >= config.maxLodLevels THEN node
    ELSE IF ~shouldSubdivide(config.strategy, node.mesh, node.bounds, depth) THEN node
    ELSE LET subBounds == subdivide(node.bounds)
             kids == [i \in 1..8 |->
                 LET subMeshes == splitMeshByBounds(node.mesh, <<subBounds[9 - i]>>)
                 IN  IF subMeshes # <<>> /\ ~empty(subMeshes[1][1])
                     THEN LET targetCount ==
                                  targetTriangleCount(config.strategy, subMeshes[1][1], depth + 1)
                              childMesh == simplifyMesh(subMeshes[1][1], targetCount, cs)
                              childNode ==
                                  GeometricLodNode(subBounds[9 - i], depth + 1, childMesh,
                                                   computeGeometricError(config.strategy,
                                                                         subMeshes[1][1], childMesh),
                                                   <<>>)
                          IN  <<buildRecursiveGeometricBackwards(childNode, depth + 1, config, cs)>>
                     ELSE <<>>]
         IN  [node EXCEPT !.children = Flatten(kids)]

RECURSIVE buildRecursiveGeometric(_, _, _, _)
\* the lambda buildRecursive of buildGeometricLodHierarchy
buildRecursiveGeometric(node, depth, config, cs) ==
    IF depth >= config.maxLodLevels THEN node
    ELSE IF ~shouldSubdivide(config.strategy, node.mesh, node.bounds, depth) THEN node
    ELSE LET subBounds == subdivide(node.bounds)
             kids == [i \in 1..8 |->
                 LET subMeshes == splitMeshByBounds(node.mesh, <<subBounds[i]>>)
                 IN  IF subMeshes # <<>> /\ ~empty(subMeshes[1][1])
                     THEN LET targetCount ==
                                  targetTriangleCount(config.strategy, subMeshes[1][1], depth + 1)
                              childMesh == simplifyMesh(subMeshes[1][1], targetCount, cs)
                              childNode ==
                                  GeometricLodNode(subBounds[i], depth + 1, childMesh,
                                                   computeGeometricError(config.strategy,
                                                                         subMeshes[1][1], childMesh),
                                                   <<>>)
                          IN  <<buildRecursiveGeometric(childNode, depth + 1, config, cs)>>
                     ELSE <<>>]
         IN  [node EXCEPT !.children = Flatten(kids)]

buildOctreeLodHierarchy(inputMesh, config) == buildGeometricLod(inputMesh, config.octreeConfig)

buildGeometricLodHierarchy(inputMesh, bounds, config, cs) ==
    IF config.useOctreeSubdivision THEN buildOctreeLodHierarchy(inputMesh, config)
    ELSE <<buildRecursiveGeometric(GeometricLodNode(bounds, 0, inputMesh, Zero, <<>>),
                                   0, config, cs)>>

\* std::variant<GeoBBox, BoundingBox>: the alternative held and its value
GeoBounds(region) == [holds |-> "GeoBBox", value |-> region]
GeometricBounds(box) == [holds |-> "BoundingBox", value |-> box]

buildLodHierarchy(inputMesh, bounds, config, cs) ==
    IF bounds.holds = "GeoBBox"
    THEN buildGeoLodHierarchy(inputMesh, bounds.value, config, cs)
    ELSE buildGeometricLodHierarchy(inputMesh, bounds.value, config, cs)

detectLodMode(bounds) == IF bounds.holds = "GeoBBox" THEN "Geographic" ELSE "Geometric"

RECURSIVE Traverse(_)
\* LodNode::traverse: the nodes of a tree, parents before children
Traverse(node) ==
    <<node>> \o Flatten([i \in 1..Len(node.children) |-> Traverse(node.children[i])])

----------------------------------------------------------------------------
(* Input meshes *)

\* vertex positions the input meshes draw from (in grid units)
PointPool ==
    << <<0, 0, 0>>, <<Unit, 0, 0>>, <<0, Unit, 0>>, <<0, 0, Unit>>,
       <<4 * Unit, 4 * Unit, 4 * Unit>>, <<3 * Unit, 4 * Unit, 4 * Unit>>,
       <<4 * Unit, 3 * Unit, 3 * Unit>> >>

PoolPoint(i) == IF i <= Len(PointPool) THEN PointPool[i] ELSE <<i * Unit, 0, 0>>

\* triangles the input index buffers draw from
TriangleCatalog == { <<0, 1, 2>>, <<1, 2, 3>>, <<0, 4, 1>>, <<4, 5, 6>> }

TrianglesBelow(v) == {t \in TriangleCatalog : \A k \in 1..3 : t[k] < v}

\* a mesh of v vertices (with or without normals) and the given triangles
MakeMesh(v, withNormals, tris) ==
    Mesh([i \in 1..v |-> PoolPoint(i)],
         IF withNormals THEN [i \in 1..v |-> "n"] ELSE <<>>,
         <<>>, <<>>, Flatten(tris))

\* valid meshes: every index < vertex count, index count divisible by 3
InputMeshes ==
    UNION { { MakeMesh(v, n, tris) :
                n \in BOOLEAN, tris \in SeqsUpTo(TrianglesBelow(v), MaxTris) } :
            v \in 3..MaxVerts }

ValidInputMeshes ==
    { m \in InputMeshes : \A i \in 1..Len(m.indices) : m.indices[i] < vertexCount(m) }

\* the meshes of a merge list: the smaller ones
MergeInputMeshes ==
    { m \in ValidInputMeshes : vertexCount(m) < MaxVerts /\ triangleCount(m) <= 1 }

\* the splits of the triangle ids of m into two non-empty lists without
\* repetition that share no id and together hold every id
Splits(m) ==
    LET ids == 0..(triangleCount(m) - 1)
        lists == {l \in SeqsUpTo(ids, triangleCount(m) - 1) :
                     l # <<>> /\ Cardinality(Range(l)) = Len(l)}
    IN  {sp \in lists \X lists :
            Range(sp[1]) \cap Range(sp[2]) = {} /\ Range(sp[1]) \cup Range(sp[2]) = ids}

\* 0x55555555: 3 * id = 2^32 - 1, so id * 3 + 2 wraps to 1
WrapToEnd == 1431655765
\* 0x55555556: 3 * id wraps to 2
WrapToTwo == 1431655766

\* triangle ids handed to subset: in range, out of range, and one whose
\* triple offset wraps around in uint32_t
TriangleIdPool == {0, 1, MaxTris, WrapToEnd, WrapToTwo}

\* outcomes of the undefined read: a number below or not below the vertex count, or a fault
Fault == MaxVerts + 1
OobValues == 0..Fault

VertexIds == 0..(MaxVerts - 1)

CollapseChoices == SeqsUpTo({p \in VertexIds \X VertexIds : p[1] # p[2]}, MaxCollapses)

----------------------------------------------------------------------------
(* The mesh operations as a state machine: one operation per behaviour *)

\* no mesh operation under way
MeshIdle ==
    /\ meshOp = "idle" /\ meshIn = <<>> /\ triangleIds = <<>> /\ target = 0
    /\ otherIds = <<>> /\ kernelCalls = 0
    /\ oobRead = 0 /\ meshOut = EmptyMesh

\* no LOD builder under way
LodIdle ==
    /\ lodOp = "idle" /\ lodMesh = EmptyMesh /\ lodBounds = <<>> /\ lodConfig = <<>>
    /\ octreeOut = <<>> /\ lodOut = <<>> /\ subdivided = <<>>

\* the command-line program not started
PipeIdle ==
    /\ pc = "idle" /\ opts = <<>> /\ loaded = <<>> /\ stagesCalled = <<>>
    /\ config_ = <<>> /\ validation = "none"
    /\ stageError = "none" /\ progress = <<>> /\ result = <<>> /\ tree = <<>>
    /\ writes = <<>> /\ exportLog = <<>> /\ exitCode = "none"

\* no tileset export under way
TilesIdle == tileTree = <<>> /\ manifests = <<>> /\ exported = <<>>

\* no CRS factory function called
CrsIdle == crsOp = "idle" /\ crsCode = <<>> /\ crsOut = <<>>

MeshInit ==
    /\ LodIdle
    /\ PipeIdle
    /\ TilesIdle
    /\ CrsIdle
    /\ meshOut = EmptyMesh
    /\ kernelCalls = 0
    /\ meshOp = "roundtrip" \/ otherIds = <<>>
    /\ \/ /\ meshOp = "subset"
          /\ meshIn \in [1..1 -> ValidInputMeshes]
          /\ triangleIds \in SeqsUpTo(TriangleIdPool, MaxIdList)
          /\ oobRead \in IF ReadsPastEnd(meshIn[1], triangleIds) THEN OobValues ELSE {0}
          /\ target = 0
          /\ collapses = <<>>
       \/ /\ meshOp = "merge"
          /\ meshIn \in SeqsUpTo(MergeInputMeshes, MaxMeshes)
          /\ triangleIds = <<>>
          /\ oobRead = 0
          /\ target = 0
          /\ collapses = <<>>
       \/ /\ meshOp = "roundtrip"
          /\ meshIn \in [1..1 -> {m \in ValidInputMeshes : triangleCount(m) >= 2}]
          /\ \E sp \in Splits(meshIn[1]) : triangleIds = sp[1] /\ otherIds = sp[2]
          /\ oobRead = 0
          /\ target = 0
          /\ collapses = <<>>
       \/ /\ meshOp \in {"simplify", "strategy"}
          /\ meshIn \in [1..1 -> ValidInputMeshes]
          /\ triangleIds = <<>>
          /\ oobRead = 0
          /\ target \in 0..MaxTris
          /\ collapses \in CollapseChoices

\* Mesh::subset returns, or the read past the end faults and nothing is returned
DoSubset ==
    /\ meshOp = "subset"
    /\ IF oobRead = Fault
       THEN meshOp' = "subset_fault" /\ meshOut' = meshOut
       ELSE meshOp' = "subset_done" /\ meshOut' = subsetOob(meshIn[1], triangleIds, oobRead)
    /\ kernelCalls' = 0
    /\ UNCHANGED <<meshIn, triangleIds, otherIds, target, collapses, oobRead, lodVars, pipeVars, tileVars, crsVars>>

DoMerge ==
    /\ meshOp = "merge"
    /\ meshOut' = merge(meshIn)
    /\ meshOp' = "merge_done"
    /\ kernelCalls' = 0
    /\ UNCHANGED <<meshIn, triangleIds, otherIds, target, collapses, oobRead, lodVars, pipeVars, tileVars, crsVars>>

DoSimplify ==
    /\ meshOp = "simplify"
    /\ meshOut' = simplifyMesh(meshIn[1], target, collapses)
    /\ kernelCalls' = simplifyMeshKernelCalls(meshIn[1], target)
    /\ meshOp' = "simplify_done"
    /\ UNCHANGED <<meshIn, triangleIds, otherIds, target, collapses, oobRead, lodVars, pipeVars, tileVars, crsVars>>

\* TriangleCountStrategy::simplify returns a mesh or an error; when it calls
\* the kernel, the kernel writes index_count elements into a destination of
\* targetIndexCount elements (undefined behaviour): the call faults or goes on
DoStrategySimplify ==
    /\ meshOp = "strategy"
    /\ LET r == strategySimplify(meshIn[1], target, collapses)
       IN  \E faults \in (IF r.kernelCalls > 0 THEN BOOLEAN ELSE {FALSE}) :
               /\ kernelCalls' = r.kernelCalls
               /\ IF faults THEN meshOp' = "strategy_fault" /\ meshOut' = meshOut
                  ELSE IF r.error # "" THEN meshOp' = "strategy_error" /\ meshOut' = meshOut
                  ELSE meshOp' = "strategy_done" /\ meshOut' = r.mesh
    /\ UNCHANGED <<meshIn, triangleIds, otherIds, target, collapses, oobRead, lodVars, pipeVars, tileVars, crsVars>>

\* a caller splits a mesh into subset(A) and subset(B) and merges the two
DoRoundTrip ==
    /\ meshOp = "roundtrip"
    /\ meshOut' = merge(<<subset(meshIn[1], triangleIds), subset(meshIn[1], otherIds)>>)
    /\ kernelCalls' = 0
    /\ meshOp' = "roundtrip_done"
    /\ UNCHANGED <<meshIn, triangleIds, otherIds, target, collapses, oobRead, lodVars, pipeVars, tileVars, crsVars>>

MeshNext == DoSubset \/ DoMerge \/ DoSimplify \/ DoStrategySimplify \/ DoRoundTrip

SpecMesh == MeshInit /\ [][MeshNext]_vars

----------------------------------------------------------------------------
(* Claims about the mesh operations (SpecMesh) *)

IndexValid(m) ==
    /\ \A i \in 1..Len(m.indices) : m.indices[i] < vertexCount(m)
    /\ Len(m.indices) % 3 = 0

Compact(m) == \A v \in 0..(vertexCount(m) - 1) : v \in Range(m.indices)

\* C9: index validity.  The input meshes are valid; in the mesh returned by
\* Mesh::subset (any triangle-id list), Mesh::merge (any list of meshes) and
\* simplifyMesh (any target) every index is less than the vertex count and the
\* index count is divisible by 3.
C9_IndexValidity ==
    meshOp \in {"subset_done", "merge_done", "simplify_done"} => IndexValid(meshOut)

\* C9 witness: a subset over a list holding an out-of-range id returned triangles
C9_Witness ==
    /\ meshOp = "subset_done"
    /\ \E i \in 1..Len(triangleIds) : triangleIds[i] >= triangleCount(meshIn[1])
    /\ triangleCount(meshOut) >= 1

\* C10: simplifier compactness.  When simplifyMesh is asked to reduce the
\* triangle count (target < |triangles(mesh)|), every vertex of the returned
\* vertex buffer is referenced by at least one returned index.
C10_SimplifierCompact ==
    (meshOp = "simplify_done" /\ target < triangleCount(meshIn[1])) => Compact(meshOut)

----------------------------------------------------------------------------
(* Inputs of the LOD builders *)

\* a triangle strip long enough for the least target of TriangleCountStrategy
\* to be exceeded: MinTargetTriangles + 1 triangles over two rows of vertices
StripTriangles == MinTargetTriangles + 1

StripMesh ==
    Mesh([i \in 1..(StripTriangles + 2) |-> <<(i - 1) * Unit, ((i - 1) % 2) * Unit, 0>>],
         <<>>, <<>>, <<>>,
         Flatten([t \in 1..StripTriangles |-> <<t - 1, t, t + 1>>]))

\* a triangle whose centre has the x of the centre of the bounding box
CenterOnPlaneMesh ==
    Mesh(<< <<0, 0, 0>>, <<2 * Unit, 0, 0>>, <<4 * Unit, 4 * Unit, 4 * Unit>> >>,
         <<>>, <<>>, <<>>, <<0, 1, 2>>)

\* the meshes handed to the builders: without triangles, a planar triangle, a
\* triangle under a vertex off its plane, two triangles sharing an edge, two
\* triangles reaching a far vertex, a triangle listed twice, two triangles in
\* opposite corners of the bounding box, and the strip
LodInputMeshes ==
    { MakeMesh(3, FALSE, <<>>),
      MakeMesh(3, FALSE, << <<0, 1, 2>> >>),
      MakeMesh(4, FALSE, << <<0, 1, 2>> >>),
      MakeMesh(4, FALSE, << <<0, 1, 2>>, <<1, 2, 3>> >>),
      MakeMesh(4, FALSE, << <<1, 2, 3>>, <<1, 2, 3>> >>),
      MakeMesh(5, FALSE, << <<0, 1, 2>>, <<0, 4, 1>> >>),
      MakeMesh(5, FALSE, << <<1, 2, 3>>, <<0, 4, 1>> >>),
      MakeMesh(7, FALSE, << <<1, 2, 3>>, <<4, 5, 6>> >>),
      StripMesh }

\* what the kernel does when simplifyMesh calls it: nothing, or one collapse
\* along the border of the strip
LodCollapseChoices(m) == IF m = StripMesh THEN {<<>>, << <<2, 0>> >>} ELSE {<<>>}

OctreeConfigs ==
    {DefaultOctreeConfig} \cup
    {OctreeConfig(t, d, s) : t \in 0..MaxTris, d \in 0..MaxOctreeDepth,
                             s \in {<<1, 1000>>, <<Unit, 1>>}}

\* the octreeConfig values tried under a LodConfig
LodOctreeConfigs ==
    {DefaultOctreeConfig} \cup {OctreeConfig(t, MaxOctreeDepth, <<1, 1000>>) : t \in 0..1}

Strategies ==
    {TriangleCountStrategy(t, <<1, 2>>) : t \in {0, 1, MinTargetTriangles}}
    \cup {ScreenSpaceErrorStrategy(16), VolumeBasedStrategy(<<1, 1000>>, <<1, 2>>)}

LodConfigs ==
    {LodConfig(st, l, u, oc) : st \in Strategies, l \in 0..MaxOctreeDepth,
                               u \in BOOLEAN, oc \in LodOctreeConfigs}

GeoRegions == {GeoBBox(0, 0, Unit, Unit), GeoBBox(0, 0, 4 * Unit, 4 * Unit)}

\* the bounds a reader hands over with mesh m: a geographic region of the
\* file set, or the bounding box of the mesh
BoundsFor(m) ==
    {GeoBounds(r) : r \in GeoRegions} \cup {GeometricBounds(computeBoundingBox(m))}

\* the coordinates of the boxes handed to subdivide: grid lines on both sides of 0
SubdivideCoords == {-Unit, 0, Unit, 2 * Unit}

\* boxes handed to BoundingBox::subdivide, empty ones included
SubdivideBoxes ==
    { BoundingBox(<<x[1], y[1], z[1]>>, <<x[2], y[2], z[2]>>) :
        x \in {<<-Unit, Unit>>, <<0, Unit>>, <<0, 2 * Unit>>, <<Unit, Unit>>},
        y \in {<<-Unit, 0>>, <<0, 2 * Unit>>, <<Unit, 2 * Unit>>, <<Unit, 0>>},
        z \in {<<-Unit, 2 * Unit>>, <<0, Unit>>, <<Unit, 2 * Unit>>} }

\* rectangles handed to GeoBBox::subdivide, empty ones included
SubdivideRegions ==
    { GeoBBox(lon1, lat1, lon2, lat2) :
        lon1 \in SubdivideCoords, lat1 \in SubdivideCoords,
        lon2 \in SubdivideCoords, lat2 \in SubdivideCoords }

----------------------------------------------------------------------------
(* The LOD builders as a state machine: one call per behaviour *)

LodInit ==
    /\ MeshIdle
    /\ PipeIdle
    /\ TilesIdle
    /\ CrsIdle
    /\ octreeOut = <<>>
    /\ lodOut = <<>>
    /\ subdivided = <<>>
    /\ \/ /\ lodOp \in {"subdivide", "subdivideGeo"}
          /\ lodMesh = EmptyMesh
          /\ lodConfig = <<>>
          /\ lodBounds \in IF lodOp = "subdivide"
                           THEN {GeometricBounds(b) : b \in SubdivideBoxes}
                           ELSE {GeoBounds(r) : r \in SubdivideRegions}
          /\ collapses = <<>>
       \/ /\ lodOp = "octree"
          /\ lodMesh \in LodInputMeshes \cup {CenterOnPlaneMesh}
          /\ lodConfig \in {LodConfig(TriangleCountStrategy(0, <<1, 2>>), 0, TRUE, oc) :
                               oc \in OctreeConfigs}
          /\ lodBounds = GeometricBounds(computeBoundingBox(lodMesh))
          /\ collapses = <<>>
       \/ /\ lodOp = "octreeLegacy"
          /\ lodMesh \in (LodInputMeshes \ {StripMesh}) \cup {CenterOnPlaneMesh}
          /\ lodConfig \in {LodConfig(TriangleCountStrategy(0, <<1, 2>>), 0, TRUE,
                                       OctreeConfig(t, d, <<1, 1000>>)) :
                                 t \in 0..MaxTris, d \in 0..MaxOctreeDepth}
          /\ lodBounds = GeometricBounds(computeBoundingBox(lodMesh))
          /\ collapses = <<>>
       \/ /\ lodOp = "hierarchy"
          /\ lodMesh \in LodInputMeshes
          /\ lodConfig \in {c \in LodConfigs :
                               IF c.useOctreeSubdivision
                               THEN \/ c.strategy = TriangleCountStrategy(0, <<1, 2>>)
                                    \/ /\ c.octreeConfig = DefaultOctreeConfig
                                       /\ c.strategy.kind = "TriangleCount"
                               ELSE c.octreeConfig = DefaultOctreeConfig}
          /\ lodBounds \in BoundsFor(lodMesh)
          /\ collapses \in LodCollapseChoices(lodMesh)

DoBuildOctree ==
    /\ lodOp = "octree"
    /\ octreeOut' = buildOctree(lodMesh, lodConfig.octreeConfig)
    /\ lodOp' = "octree_done"
    /\ UNCHANGED <<lodMesh, lodBounds, lodConfig, lodOut, subdivided, collapses, meshVars,
                   pipeVars, tileVars, crsVars>>

DoBuildLodHierarchy ==
    /\ lodOp = "hierarchy"
    /\ lodOut' = buildLodHierarchy(lodMesh, lodBounds, lodConfig, collapses)
    /\ lodOp' = "hierarchy_done"
    /\ UNCHANGED <<lodMesh, lodBounds, lodConfig, octreeOut, subdivided, collapses, meshVars,
                   pipeVars, tileVars, crsVars>>

\* a call of the legacy buildOctree(mesh, maxDepth, maxTrianglesPerNode)
DoBuildOctreeLegacy ==
    /\ lodOp = "octreeLegacy"
    /\ octreeOut' = buildOctreeLegacy(lodMesh, lodConfig.octreeConfig.maxDepth,
                                      lodConfig.octreeConfig.maxTrianglesPerNode)
    /\ lodOp' = "octreeLegacy_done"
    /\ UNCHANGED <<lodMesh, lodBounds, lodConfig, lodOut, subdivided, collapses, meshVars,
                   pipeVars, tileVars, crsVars>>

\* a call of BoundingBox::subdivide
DoSubdivide ==
    /\ lodOp = "subdivide"
    /\ subdivided' = subdivide(lodBounds.value)
    /\ lodOp' = "subdivide_done"
    /\ UNCHANGED <<lodMesh, lodBounds, lodConfig, octreeOut, lodOut, collapses, meshVars,
                   pipeVars, tileVars, crsVars>>

\* a call of GeoBBox::subdivide
DoSubdivideGeo ==
    /\ lodOp = "subdivideGeo"
    /\ subdivided' = subdivideGeo(lodBounds.value)
    /\ lodOp' = "subdivideGeo_done"
    /\ UNCHANGED <<lodMesh, lodBounds, lodConfig, octreeOut, lodOut, collapses, meshVars,
                   pipeVars, tileVars, crsVars>>

LodNext ==
    DoBuildOctree \/ DoBuildOctreeLegacy \/ DoBuildLodHierarchy \/ DoSubdivide \/ DoSubdivideGeo

SpecLod == LodInit /\ [][LodNext]_vars

----------------------------------------------------------------------------
(* Claims about the partitioner and the LOD builders (SpecLod) *)

\* how often x occurs in the sequence s
Occurrences(s, x) == Cardinality({i \in 1..Len(s) : s[i] = x})

\* the nodes of the tree buildLodHierarchy returned
LodNodes == IF lodOut = <<>> THEN {} ELSE Range(Traverse(lodOut[1]))

\* C1: triangle conservation.  In the tree buildOctree returns for a non-empty
\* mesh, each source triangle id appears in the triangle list of exactly one
\* leaf: none is duplicated across leaves and none is lost.
C1_TriangleConservation ==
    (lodOp = "octree_done" /\ octreeOut # <<>>) =>
        \A t \in 0..(triangleCount(lodMesh) - 1) :
            Occurrences(LeafTriangles(octreeOut[1]), t) = 1

\* C2: error monotonicity.  In the tree buildLodHierarchy returns, in any mode,
\* no child's geometricError exceeds its parent's, the root's children included.
C2_ErrorMonotone ==
    lodOp = "hierarchy_done" =>
        \A n \in LodNodes : \A i \in 1..Len(n.children) :
            RatLeq(n.children[i].geometricError, n.geometricError)

\* C6: bounds containment in geometric mode.  Every vertex position of the mesh
\* of every node of a geometric LOD tree lies inside the node's bounding box.
C6_BoundsContainment ==
    (lodOp = "hierarchy_done" /\ lodBounds.holds = "BoundingBox") =>
        \A n \in LodNodes : \A v \in 1..vertexCount(n.mesh) :
            contains(n.bounds, n.mesh.positions[v])

\* C7: geographic routing.  In geographic mode every vertex of a child's mesh
\* has its (lon, lat) inside the child's rectangle, and a sub-rectangle that
\* holds no vertex of the parent's mesh produces no child.
C7_GeographicRouting ==
    (lodOp = "hierarchy_done" /\ lodBounds.holds = "GeoBBox") =>
        \A n \in LodNodes : \A i \in 1..Len(n.children) :
            LET child == n.children[i]
            IN  /\ \A v \in 1..vertexCount(child.mesh) :
                       containsLonLat(child.region, child.mesh.positions[v][1],
                                      child.mesh.positions[v][2])
                /\ \E v \in 1..vertexCount(n.mesh) :
                       containsLonLat(child.region, n.mesh.positions[v][1],
                                      n.mesh.positions[v][2])

\* C8: maxLodLevels is a hard ceiling.  No node of the tree buildLodHierarchy
\* returns has lodLevel greater than config.maxLodLevels, whatever the
\* configuration (useOctreeSubdivision included).
C8_MaxLevelsCeiling ==
    lodOp = "hierarchy_done" =>
        \A n \in LodNodes : n.lodLevel <= lodConfig.maxLodLevels

----------------------------------------------------------------------------
(* io/TilesExporter.cpp, io/OsgExporter.cpp : the exporters *)

\* a file of the output directory: <<name, lodLevel, node>>.  A tile's name
\* holds the level and the address of its node; the position of the node in
\* the traversal stands for the address
TilesetJsonFile == <<"tileset.json", 0, 0>>
ResultFile(format) == <<format, 0, 0>>
TileFile(lodLevel, node) == <<"b3dm", lodLevel, node>>

\* a file created: complete, or opened and left short by a failed write
Written(file) == [file |-> file, complete |-> TRUE]
Partial(file) == [file |-> file, complete |-> FALSE]

\* exportRecursive: the tile files of the nodes with a mesh, parents first
TileFiles(root) ==
    LET nodes == Traverse(root)
        withMesh == SelectSeq([i \in 1..Len(nodes) |-> i], LAMBDA i : ~empty(nodes[i].mesh))
    IN  [k \in 1..Len(withMesh) |-> TileFile(nodes[withMesh[k]].lodLevel, withMesh[k])]

\* generateTilesetJson: the file cannot be opened (WriteError, no file), the
\* serialisation throws after the file was opened (JsonError), or it is written
generateTilesetJson(outcome) ==
    CASE outcome = "WriteError" -> [error |-> "WriteError", writes |-> <<>>]
      [] outcome = "JsonError" -> [error |-> "JsonError", writes |-> <<Partial(TilesetJsonFile)>>]
      [] outcome = "ok" -> [error |-> "none", writes |-> <<Written(TilesetJsonFile)>>]

\* exportTileContent: the GLB cannot be made, the file cannot be opened, the
\* write leaves the stream bad, or the tile is written
exportTileContent(outputFile, outcome) ==
    CASE outcome = "GlbError" -> [error |-> "GlbError", writes |-> <<>>]
      [] outcome = "open" -> [error |-> "WriteError", writes |-> <<>>]
      [] outcome = "write" -> [error |-> "WriteError", writes |-> <<Partial(outputFile)>>]
      [] outcome = "ok" -> [error |-> "none", writes |-> <<Written(outputFile)>>]

TileFailures == {"GlbError", "open", "write"}

\* B3dmExporter::exportTileset: tileset.json, then the tiles until one fails;
\* tileFail is the tile whose export fails (none if there is no such tile)
exportTileset(root, jsonOutcome, tileFail, tileOutcome) ==
    LET tilesetResult == generateTilesetJson(jsonOutcome)
        tiles == TileFiles(root)
        fails == tileFail \in 1..Len(tiles)
        last == IF fails THEN tileFail ELSE Len(tiles)
        tileResults == [k \in 1..last |->
                           exportTileContent(tiles[k], IF k = tileFail THEN tileOutcome ELSE "ok")]
    IN  IF tilesetResult.error # "none"
        THEN [error |-> tilesetResult.error, at |-> "tileset.json",
              writes |-> tilesetResult.writes]
        ELSE [error |-> IF fails THEN tileResults[last].error ELSE "none",
              at |-> IF fails THEN "tile" ELSE "none",
              writes |-> tilesetResult.writes
                         \o Flatten([k \in 1..last |-> tileResults[k].writes])]

\* StandardOsgExporter::exportSingleFile -> exportNode
exportSingleFile(outputFile, outcome) ==
    CASE outcome = "ConversionError" -> [error |-> "ConversionError", writes |-> <<>>]
      [] outcome = "WriteError" -> [error |-> "WriteError", writes |-> <<>>]
      [] outcome = "ok" -> [error |-> "none", writes |-> <<Written(outputFile)>>]

----------------------------------------------------------------------------
(* pipeline/LodPipeline.cpp : components::exportResults *)

\* what the file system and the libraries do during one export stage
ExportEnv(mkdir, osg, json, tileFail, tileOutcome) ==
    [mkdir |-> mkdir, osg |-> osg, json |-> json, tileFail |-> tileFail,
     tileOutcome |-> tileOutcome]

RECURSIVE ExportFormats(_, _, _, _)
\* the loop over formats of exportResults; acc is the state so far
ExportFormats(root, formats, env, acc) ==
    IF formats = <<>> THEN acc
    ELSE LET format == Head(formats)
         IN  IF format = "osgb" \/ format = "osg"
             THEN LET r == exportSingleFile(ResultFile(format), env.osg)
                  IN  ExportFormats(root, Tail(formats), env,
                          [acc EXCEPT !.outputFiles =
                                          IF r.error = "none" THEN @ \o <<ResultFile(format)>>
                                          ELSE @,
                                      !.writes = @ \o r.writes,
                                      !.log = Append(@, [format |-> format, error |-> r.error,
                                                         at |-> IF r.error = "none" THEN "none"
                                                                ELSE "node"])])
             ELSE IF format = "3dtiles"
             THEN IF env.mkdir = "tilesDir"
                  THEN [acc EXCEPT !.threw = TRUE]
                  ELSE LET r == exportTileset(root, env.json, env.tileFail, env.tileOutcome)
                       IN  ExportFormats(root, Tail(formats), env,
                               [acc EXCEPT !.outputFiles =
                                               IF r.error = "none" THEN @ \o <<TilesetJsonFile>>
                                               ELSE @,
                                           !.writes = @ \o r.writes,
                                           !.log = Append(@, [format |-> format,
                                                              error |-> r.error, at |-> r.at])])
             ELSE ExportFormats(root, Tail(formats), env, acc)

\* components::exportResults: an exporter's error is not looked at beyond
\* leaving its file out of outputFiles; only an exception makes the stage fail
exportResults(root, formats, env) ==
    LET start == [threw |-> FALSE, outputFiles |-> <<>>, writes |-> <<>>, log |-> <<>>]
        done == IF env.mkdir = "outputDir" THEN [start EXCEPT !.threw = TRUE]
                ELSE ExportFormats(root, formats, env, start)
    IN  [error |-> IF done.threw THEN "OutputError" ELSE "none",
         outputFiles |-> IF done.threw THEN <<>> ELSE done.outputFiles,
         writes |-> done.writes, log |-> done.log]

----------------------------------------------------------------------------
(* app/main.cpp and LodPipeline::execute as a state machine *)

MaxLevelsOpt == 1      \* --max-levels values explored
MaxTrianglesOpt == 1   \* --max-triangles values explored
MaxTileFail == 2       \* the tiles whose export can fail: the first MaxTileFail
MaxListedFiles == 2    \* files named by an input list

CommandLineOptions(parseOk, inputDetected, formats, mode, maxTriangles, maxLevels, useOctree, dryRun) ==
    [parseOk |-> parseOk, inputDetected |-> inputDetected, formats |-> formats, mode |-> mode,
     maxTriangles |-> maxTriangles, maxLevels |-> maxLevels, useOctree |-> useOctree,
     dryRun |-> dryRun]

\* the values of --mode the program distinguishes
Modes == {"auto", "geo", "geometric"}

FormatLists == { <<"3dtiles">>, <<"osgb">>, <<"osgb", "3dtiles">>, <<"3dtiles", "osg">> }

\* a command line that does not parse, one whose input is not recognised, and
\* the ones that reach the configuration
CommandLines ==
    { CommandLineOptions(FALSE, FALSE, <<"3dtiles">>, "auto", 0, 0, TRUE, FALSE) }
    \cup { CommandLineOptions(TRUE, FALSE, <<"3dtiles">>, "auto", 0, 0, TRUE, d) : d \in BOOLEAN }
    \cup { CommandLineOptions(TRUE, TRUE, f, md, t, l, u, d) :
             f \in FormatLists, md \in Modes, t \in 0..MaxTrianglesOpt,
             l \in 0..MaxLevelsOpt, u \in BOOLEAN, d \in BOOLEAN }

\* buildPipelineConfig: the LodConfig (always a TriangleCountStrategy; octreeConfig untouched)
lodConfigOf(o) ==
    LodConfig(TriangleCountStrategy(o.maxTriangles, <<1, 2>>), o.maxLevels, o.useOctree,
              DefaultOctreeConfig)

\* io::InputConfig: which alternative the variant holds ("path", "paths",
\* "PlyFileInfo", "SimplePlyFileInfo") and, per file named, whether
\* std::filesystem::exists finds it when validateConfig asks
InputConfig(holds, exists) == [holds |-> holds, exists |-> exists]

\* a LodConfig::strategy that holds no strategy (nullptr)
NoStrategy == LodStrategy("nullptr", 0, Zero, 0, Zero)

PipelineConfig(inputConfig, lod, outputFormats, forceGeometricMode) ==
    [inputConfig |-> inputConfig, lodConfig |-> lod, outputFormats |-> outputFormats,
     forceGeometricMode |-> forceGeometricMode]

\* buildPipelineConfig, given what autoDetectInputConfig returned
buildPipelineConfig(o, inputConfig) ==
    PipelineConfig(inputConfig, lodConfigOf(o), o.formats, o.mode = "geometric")

\* mutant of validateConfig: the output formats are not looked at
validateConfigNoFormats(c) ==
    LET validInput ==
            IF c.inputConfig.holds = "path" THEN c.inputConfig.exists[1]
            ELSE /\ c.inputConfig.exists # <<>>
                 /\ \A i \in 1..Len(c.inputConfig.exists) : c.inputConfig.exists[i]
    IN  IF ~validInput THEN "ConfigError"
        ELSE IF c.lodConfig.strategy = NoStrategy THEN "ConfigError"
        ELSE "ok"

\* validateConfig: the input, then the output formats, then the strategy
validateConfig(c) ==
    LET validInput ==
            IF c.inputConfig.holds = "path" THEN c.inputConfig.exists[1]
            ELSE /\ c.inputConfig.exists # <<>>
                 /\ \A i \in 1..Len(c.inputConfig.exists) : c.inputConfig.exists[i]
    IN  IF ~validInput THEN "ConfigError"
        ELSE IF c.outputFormats = <<>> THEN "ConfigError"
        ELSE IF c.lodConfig.strategy = NoStrategy THEN "ConfigError"
        ELSE "ok"

PipelineResult(success, errorMessage, lodMode, outputFiles) ==
    [success |-> success, errorMessage |-> errorMessage, lodMode |-> lodMode,
     outputFiles |-> outputFiles]

\* what a reader yields: a mesh without triangles, one triangle, two triangles
PipelineMeshes ==
    { MakeMesh(3, FALSE, <<>>), MakeMesh(3, FALSE, << <<0, 1, 2>> >>),
      MakeMesh(4, FALSE, << <<0, 1, 2>>, <<1, 2, 3>> >>) }

LoadedInputs ==
    UNION { { <<m, GeoBounds(GeoBBox(0, 0, Unit, Unit))>>,
              <<m, GeometricBounds(computeBoundingBox(m))>> } : m \in PipelineMeshes }
    \cup { <<StripMesh, GeoBounds(GeoBBox(0, 0, Unit, Unit))>> }

\* what the kernel does when the build stage calls it: nothing, or it reports
\* zero indices
PipelineCollapseChoices(input) ==
    IF input[1] = StripMesh THEN {<<>>, KernelReportsZero} ELSE {<<>>}

\* what the reads through a null root yield when they do not fault
ZeroNode == GeometricLodNode(BoundingBox(<<0, 0, 0>>, <<0, 0, 0>>), 0, EmptyMesh, Zero, <<>>)

\* what autoDetectInputConfig returns for an input that yields the bounds:
\* a single .ply file (geometric bounds), or the list read from a list file
\* (geographic bounds), which may be empty and may name files that are missing
DetectedInputConfigs(bounds) ==
    IF bounds.holds = "GeoBBox"
    THEN {InputConfig("PlyFileInfo", es) : es \in SeqsUpTo(BOOLEAN, MaxListedFiles)}
    ELSE {InputConfig("path", <<e>>) : e \in BOOLEAN}

\* the configurations a caller of validateConfig can hand over
ValidateConfigs ==
    { PipelineConfig(ic, LodConfig(st, MaxLevelsOpt, TRUE, DefaultOctreeConfig), f, FALSE) :
        ic \in {InputConfig("path", <<e>>) : e \in BOOLEAN}
               \cup {InputConfig(h, es) : h \in {"paths", "PlyFileInfo", "SimplePlyFileInfo"},
                                          es \in SeqsUpTo(BOOLEAN, MaxListedFiles)},
        st \in {NoStrategy, TriangleCountStrategy(MaxTrianglesOpt, <<1, 2>>)},
        f \in FormatLists \cup {<<>>} }

ExportEnvs ==
    { ExportEnv(mk, osg, json, tf, to) :
        mk \in {"ok", "outputDir", "tilesDir"}, osg \in {"ok", "WriteError", "ConversionError"},
        json \in {"ok", "WriteError", "JsonError"}, tf \in 0..MaxTileFail, to \in TileFailures }

Init ==
    /\ MeshIdle
    /\ LodIdle
    /\ TilesIdle
    /\ CrsIdle
    /\ validation = "none"
    /\ \/ /\ pc = "main"
          /\ opts \in CommandLines
          /\ config_ = <<>>
          /\ loaded \in LoadedInputs
          /\ collapses \in PipelineCollapseChoices(loaded)
       \/ /\ pc = "validate"
          /\ opts = <<>>
          /\ config_ \in ValidateConfigs
          /\ loaded = <<>>
          /\ collapses = <<>>
    /\ stagesCalled = <<>>
    /\ stageError = "none"
    /\ progress = <<>>
    /\ result = PipelineResult(FALSE, "", "unset", <<>>)
    /\ tree = <<>>
    /\ writes = <<>>
    /\ exportLog = <<>>
    /\ exitCode = "none"

\* a caller other than main hands a configuration to validateConfig
CallValidateConfig ==
    /\ pc = "validate"
    /\ validation' = validateConfig(config_)
    /\ pc' = "validated"
    /\ UNCHANGED <<opts, config_, loaded, stagesCalled, stageError, progress, result, tree,
                   writes, exportLog, exitCode, meshVars, collapses, lodVars, tileVars, crsVars>>

\* mutant of MainPrepare: the dry-run flag is not looked at
MainPrepareNoDryRun ==
    /\ pc = "main"
    /\ IF ~opts.parseOk \/ ~opts.inputDetected
       THEN pc' = "exited" /\ exitCode' = "1" /\ config_' = config_ /\ validation' = validation
       ELSE \E inputConfig \in DetectedInputConfigs(loaded[2]) :
               /\ config_' = buildPipelineConfig(opts, inputConfig)
               /\ validation' = validateConfig(config_')
               /\ IF validation' = "ConfigError"
                  THEN pc' = "exited" /\ exitCode' = "1"
                  ELSE pc' = "load" /\ exitCode' = exitCode
    /\ UNCHANGED <<opts, loaded, stagesCalled, stageError, progress, result, tree, writes,
                   exportLog, meshVars, collapses, lodVars, tileVars, crsVars>>

\* main up to the call of execute: parse (an error exits with 1), configure
\* (an input that is not recognised throws: exit 1), validate, estimate, dry run
MainPrepare ==
    /\ pc = "main"
    /\ IF ~opts.parseOk \/ ~opts.inputDetected
       THEN pc' = "exited" /\ exitCode' = "1" /\ config_' = config_ /\ validation' = validation
       ELSE \E inputConfig \in DetectedInputConfigs(loaded[2]) :
               /\ config_' = buildPipelineConfig(opts, inputConfig)
               /\ validation' = validateConfig(config_')
               /\ IF validation' = "ConfigError"
                  THEN pc' = "exited" /\ exitCode' = "1"
                  ELSE IF opts.dryRun
                  THEN pc' = "exited" /\ exitCode' = "0"
                  ELSE pc' = "load" /\ exitCode' = exitCode
    /\ UNCHANGED <<opts, loaded, stagesCalled, stageError, progress, result, tree, writes,
                   exportLog, meshVars, collapses, lodVars, tileVars, crsVars>>

\* mutant of LoadInput: the first progress value is 0.9
LoadInputLateProgress ==
    /\ pc = "load"
    /\ stagesCalled' = Append(stagesCalled, "load")
    /\ progress' = Append(progress, 9)
    /\ \E outcome \in {"ok", "InputError"} :
          /\ stageError' = IF outcome = "ok" THEN "none" ELSE outcome
          /\ IF outcome = "ok"
             THEN /\ result' = [result EXCEPT !.lodMode = detectLodMode(loaded[2])]
                  /\ pc' = "preprocess"
             ELSE /\ result' = [result EXCEPT !.errorMessage = "input load failed"]
                  /\ pc' = "returned"
    /\ UNCHANGED <<opts, config_, validation, loaded, tree, writes, exportLog, exitCode, meshVars, collapses, lodVars,
                   tileVars, crsVars>>

\* execute, step 1: loadInput
LoadInput ==
    /\ pc = "load"
    /\ stagesCalled' = Append(stagesCalled, "load")
    /\ progress' = Append(progress, 1)
    /\ \E outcome \in {"ok", "InputError"} :
          /\ stageError' = IF outcome = "ok" THEN "none" ELSE outcome
          /\ IF outcome = "ok"
             THEN /\ result' = [result EXCEPT !.lodMode = detectLodMode(loaded[2])]
                  /\ pc' = "preprocess"
             ELSE /\ result' = [result EXCEPT !.errorMessage = "input load failed"]
                  /\ pc' = "returned"
    /\ UNCHANGED <<opts, config_, validation, loaded, tree, writes, exportLog, exitCode, meshVars, collapses, lodVars,
                   tileVars, crsVars>>

\* execute, step 2: preprocessMesh (returns the mesh as it is, unless the copy throws)
PreprocessMesh ==
    /\ pc = "preprocess"
    /\ stagesCalled' = Append(stagesCalled, "preprocess")
    /\ progress' = Append(progress, 3)
    /\ \E outcome \in {"ok", "ProcessingError"} :
          /\ stageError' = IF outcome = "ok" THEN "none" ELSE outcome
          /\ IF outcome = "ok"
             THEN result' = result /\ pc' = "build"
             ELSE /\ result' = [result EXCEPT !.errorMessage = "mesh preprocessing failed"]
                  /\ pc' = "returned"
    /\ UNCHANGED <<opts, config_, validation, loaded, tree, writes, exportLog, exitCode, meshVars, collapses, lodVars,
                   tileVars, crsVars>>

\* mutant of BuildLod: a failed build does not stop the pipeline
BuildLodGoesOn ==
    /\ pc = "build"
    /\ stagesCalled' = Append(stagesCalled, "build")
    /\ progress' = Append(progress, 5)
    /\ \E outcome \in {"ok", "ProcessingError"} :
          /\ stageError' = IF outcome = "ok" THEN "none" ELSE outcome
          /\ tree' = IF outcome = "ok"
                     THEN buildLodHierarchy(loaded[1], loaded[2], config_.lodConfig, collapses)
                     ELSE <<ZeroNode>>
          /\ result' = result
          /\ pc' = IF outcome = "ok" THEN "stats" ELSE "export"
    /\ UNCHANGED <<opts, config_, validation, loaded, writes, exportLog, exitCode, meshVars, collapses, lodVars,
                   tileVars, crsVars>>

\* execute, step 3: buildLod
BuildLod ==
    /\ pc = "build"
    /\ stagesCalled' = Append(stagesCalled, "build")
    /\ progress' = Append(progress, 5)
    /\ \E outcome \in {"ok", "ProcessingError"} :
          /\ stageError' = IF outcome = "ok" THEN "none" ELSE outcome
          /\ IF outcome = "ok"
             THEN /\ tree' = buildLodHierarchy(loaded[1], loaded[2], config_.lodConfig,
                                               collapses)
                  /\ result' = result
                  /\ pc' = "stats"
             ELSE /\ tree' = tree
                  /\ result' = [result EXCEPT !.errorMessage = "LOD build failed"]
                  /\ pc' = "returned"
    /\ UNCHANGED <<opts, config_, validation, loaded, writes, exportLog, exitCode, meshVars, collapses, lodVars,
                   tileVars, crsVars>>

\* execute, the statistics: the root is dereferenced; through a null root that
\* is undefined behaviour, which faults or reads whatever lies there
ComputeStats ==
    /\ pc = "stats"
    /\ IF tree # <<>>
       THEN pc' = "export" /\ tree' = tree /\ exitCode' = exitCode
       ELSE \E outcome \in {"fault", "zeros"} :
               IF outcome = "fault"
               THEN pc' = "crashed" /\ tree' = tree /\ exitCode' = "killed"
               ELSE pc' = "export" /\ tree' = <<ZeroNode>> /\ exitCode' = exitCode
    /\ UNCHANGED <<opts, config_, validation, loaded, stagesCalled, stageError, progress, result, writes, exportLog,
                   meshVars, collapses, lodVars,
                   tileVars, crsVars>>

\* execute, step 4: exportResults
ExportResults ==
    /\ pc = "export"
    /\ stagesCalled' = Append(stagesCalled, "export")
    /\ progress' = Append(progress, 8)
    /\ \E env \in ExportEnvs :
          LET r == exportResults(tree[1], config_.outputFormats, env)
          IN  /\ writes' = writes \o r.writes
              /\ exportLog' = exportLog \o r.log
              /\ stageError' = r.error
              /\ IF r.error = "none"
                 THEN /\ result' = [result EXCEPT !.outputFiles = r.outputFiles]
                      /\ pc' = "exported"
                 ELSE /\ result' = [result EXCEPT !.errorMessage = "result export failed"]
                      /\ pc' = "returned"
    /\ UNCHANGED <<opts, config_, validation, loaded, tree, exitCode, meshVars, collapses, lodVars,
                   tileVars, crsVars>>

\* execute, after the export stage returned its files: success, progress 1.0
Succeed ==
    /\ pc = "exported"
    /\ result' = [result EXCEPT !.success = TRUE]
    /\ progress' = Append(progress, 10)
    /\ pc' = "returned"
    /\ UNCHANGED <<opts, config_, validation, loaded, stagesCalled, stageError, tree, writes, exportLog, exitCode,
                   meshVars, collapses, lodVars,
                   tileVars, crsVars>>

\* main after execute: the exit code
MainReturn ==
    /\ pc = "returned"
    /\ exitCode' = IF result.success THEN "0" ELSE "1"
    /\ pc' = "exited"
    /\ UNCHANGED <<opts, config_, validation, loaded, stagesCalled, stageError, progress, result, tree, writes,
                   exportLog, meshVars, collapses, lodVars,
                   tileVars, crsVars>>

Next ==
    \/ CallValidateConfig
    \/ MainPrepare
    \/ LoadInput
    \/ PreprocessMesh
    \/ BuildLod
    \/ ComputeStats
    \/ ExportResults
    \/ Succeed
    \/ MainReturn

Spec == Init /\ [][Next]_vars

----------------------------------------------------------------------------
(* Claims about the pipeline and the exporter (Spec) *)

StageOrder == <<"load", "preprocess", "build", "export">>

\* execute has returned its result
Returned == pc \in {"returned", "exited"} /\ stagesCalled # <<>>

\* C3: stage ordering and terminal failure.  execute invokes load, preprocess,
\* build, export in this order, each at most once; once a stage has returned an
\* error no later stage is invoked and the result returned has success = false
\* and a non-empty errorMessage; success = true only after the export stage
\* has returned.
C3_StageOrdering ==
    /\ stagesCalled = SubSeq(StageOrder, 1, Len(stagesCalled))
    /\ stageError # "none" =>
          /\ pc \in {"returned", "exited"}
          /\ ~result.success
          /\ result.errorMessage # ""
    /\ result.success =>
          /\ stagesCalled = StageOrder
          /\ pc \in {"returned", "exited"}

\* C3 witness: the build stage failed after load and preprocess, and execute returned
C3_Witness ==
    /\ pc = "exited"
    /\ stagesCalled = <<"load", "preprocess", "build">>
    /\ stageError = "ProcessingError"
    /\ exitCode = "1"

\* a tile's export failed during the export stage
TileExportFailed == \E i \in 1..Len(exportLog) : exportLog[i].at = "tile"

FileExists(file) == \E i \in 1..Len(writes) : writes[i].file = file

\* C4: tileset.json is written last.  In every run where the export of some
\* tile fails, tileset.json does not exist in the output directory.
C4_TilesetJsonLast == TileExportFailed => ~FileExists(TilesetJsonFile)

\* C5: output failures are surfaced.  If an exporter of a requested format
\* reported an error, the result has success = false and the program exits
\* with code 1.
C5_OutputFailureSurfaced ==
    (Returned /\ \E i \in 1..Len(exportLog) : exportLog[i].error # "none") =>
        /\ ~result.success
        /\ pc = "exited" => exitCode = "1"

----------------------------------------------------------------------------
(* Further claims about the mesh operations (SpecMesh) *)

\* the three vertex positions of triangle t (0-based) of mesh m, in corner order
TrianglePositions(m, t) ==
    << m.positions[m.indices[3 * t + 1] + 1], m.positions[m.indices[3 * t + 2] + 1],
       m.positions[m.indices[3 * t + 3] + 1] >>

\* every listed triangle id names a triangle of m
IdsInRange(m, tris) == \A i \in 1..Len(tris) : tris[i] < triangleCount(m)

\* the source vertex ids the listed triangles refer to
ReferencedVertices(m, tris) ==
    UNION { {m.indices[3 * tris[i] + 1], m.indices[3 * tris[i] + 2], m.indices[3 * tris[i] + 3]} :
            i \in 1..Len(tris) }

\* C11: subset exactness.  For a valid mesh and a list t_0..t_{n-1} of in-range
\* triangle ids, Mesh::subset returns n triangles, triangle i having the vertex
\* positions of source triangle t_i in the same corner order; the vertex buffer
\* holds one vertex per source vertex the listed triangles refer to, and the
\* indices cover exactly 0..V'-1.
C11_SubsetExact ==
    (meshOp = "subset_done" /\ IdsInRange(meshIn[1], triangleIds)) =>
        /\ Len(meshOut.indices) = 3 * Len(triangleIds)
        /\ \A i \in 1..Len(triangleIds) :
              TrianglePositions(meshOut, i - 1) = TrianglePositions(meshIn[1], triangleIds[i])
        /\ vertexCount(meshOut) = Cardinality(ReferencedVertices(meshIn[1], triangleIds))
        /\ Range(meshOut.indices) = 0..(vertexCount(meshOut) - 1)
        /\ \A v \in 1..vertexCount(meshOut) :
              \E o \in ReferencedVertices(meshIn[1], triangleIds) :
                  meshOut.positions[v] = meshIn[1].positions[o + 1]

\* C11 witness: a subset over two in-range ids of a mesh that has a vertex
\* neither triangle refers to returned the two triangles on fewer vertices
C11_Witness ==
    /\ meshOp = "subset_done"
    /\ Len(triangleIds) = 2
    /\ IdsInRange(meshIn[1], triangleIds)
    /\ triangleCount(meshOut) = 2
    /\ vertexCount(meshOut) < vertexCount(meshIn[1])

\* the triangles of m as triples of vertex positions, in buffer order
TrianglesOf(m) == [t \in 1..triangleCount(m) |-> TrianglePositions(m, t - 1)]

\* two sequences hold the same elements the same number of times
SameMultiset(s, t) ==
    /\ Len(s) = Len(t)
    /\ \A x \in Range(s) \cup Range(t) : Occurrences(s, x) = Occurrences(t, x)

\* C12: subset/concatenate round trip.  For a valid mesh and a split of its
\* triangle ids into two disjoint non-empty lists A and B that cover all
\* triangles, Mesh::merge of [subset(A), subset(B)] has the same multiset of
\* triangles, as triples of vertex positions, as the mesh.
C12_SubsetMergeRoundTrip ==
    meshOp = "roundtrip_done" => SameMultiset(TrianglesOf(meshOut), TrianglesOf(meshIn[1]))

\* C12 witness: the round trip was made on a mesh whose two triangles differ,
\* the second list naming the first triangle
C12_Witness ==
    /\ meshOp = "roundtrip_done"
    /\ otherIds = <<0>>
    /\ TrianglePositions(meshIn[1], 0) # TrianglePositions(meshIn[1], 1)
    /\ triangleCount(meshOut) = 2

\* C13: simplify is the identity at or above the current size.  For every mesh
\* and every target >= the mesh's triangle count, simplification (simplifyMesh,
\* TriangleCountStrategy::simplify) returns a mesh with the vertex buffer and
\* the index buffer of the input, and the kernel is not called.
C13_SimplifyIdentity ==
    (/\ meshOp \in {"simplify_done", "strategy_done", "strategy_error", "strategy_fault"}
     /\ target >= triangleCount(meshIn[1])) =>
        /\ meshOp \in {"simplify_done", "strategy_done"}
        /\ meshOut = meshIn[1]
        /\ kernelCalls = 0

----------------------------------------------------------------------------
(* Further claims about the LOD builders (SpecLod) *)

\* the geometric hierarchy was built with the default configuration: octree
\* subdivision on, octreeConfig as constructed (the octree path reads nothing
\* else of the LodConfig)
DefaultGeometricBuild ==
    /\ lodOp = "hierarchy_done"
    /\ lodBounds.holds = "BoundingBox"
    /\ lodConfig.useOctreeSubdivision
    /\ lodConfig.octreeConfig = DefaultOctreeConfig
    /\ lodConfig.strategy.kind = "TriangleCount"

\* C14: no subdivision below the tile budget.  For a non-empty input mesh of at
\* most maxTrianglesPerTile triangles (a planar one included), the geometric
\* hierarchy built with the default configuration exists and is the root
\* alone, whose mesh has all the input triangles and whose geometricError is 0.
C14_NoSubdivisionBelowBudget ==
    (/\ DefaultGeometricBuild
     /\ triangleCount(lodMesh) >= 1
     /\ triangleCount(lodMesh) <= lodConfig.strategy.maxTrianglesPerTile) =>
        /\ lodOut # <<>>
        /\ lodOut[1].children = <<>>
        /\ SameMultiset(TrianglesOf(lodOut[1].mesh), TrianglesOf(lodMesh))
        /\ lodOut[1].geometricError = Zero

\* the octree the partition-guided builder works from
PartitionTree == buildOctree(lodMesh, lodConfig.octreeConfig)

\* no leaf of the partition was left above the budget by the depth or size limit
NoLeafCutOff ==
    /\ PartitionTree # <<>>
    /\ \A leaf \in Range(OctreeLeaves(PartitionTree[1])) :
          Len(leaf.triangleIndices) <= lodConfig.octreeConfig.maxTrianglesPerNode

\* C15: per-node triangle budget in partition-guided mode.  When the octree LOD
\* tree is built with a budget of N triangles per node and no partition leaf
\* was cut off by the depth or size limit, every LOD node with a non-empty
\* mesh, the root and the internal nodes included, has at most N triangles.
C15_PerNodeBudget ==
    (/\ lodOp = "hierarchy_done"
     /\ lodBounds.holds = "BoundingBox"
     /\ lodConfig.useOctreeSubdivision
     /\ NoLeafCutOff) =>
        \A n \in LodNodes :
            triangleCount(n.mesh) <= lodConfig.octreeConfig.maxTrianglesPerNode

----------------------------------------------------------------------------
(* io/TilesExporter.cpp : TilesetBuilder *)

\* reinterpret_cast<uintptr_t>(&lodNode): where the node lies in this execution.
\* The heap of an execution starts at a base the run-time environment chooses;
\* the node visited as pos-th of the tree lies pos places above it.
AddressOf(base, pos) == base + pos

\* TilesetBuilder::generateContentUri: "tiles/level_" level "_" address ".b3dm"
generateContentUri(lodLevel, address) == <<"tiles/level_", lodLevel, "_", address, ".b3dm">>

\* TilesetBuilder::calculateGeometricError
calculateGeometricError(node) ==
    IF node.geometricError[1] > 0 THEN node.geometricError ELSE <<100, 1>>

\* TilesetBuilder::buildBoundingVolume: the region with the height range 0..1000
\* (the factor pi/180 the source applies to each angle is left symbolic)
buildBoundingVolume(region) ==
    <<region.minLon, region.minLat, region.maxLon, region.maxLat, 0, 1000>>

\* the region buildTile hands to buildBoundingVolume for either kind of node
TileRegion(node) ==
    IF "region" \in DOMAIN node THEN node.region
    ELSE GeoBBox(node.bounds.min[1], node.bounds.min[2], node.bounds.max[1], node.bounds.max[2])

RECURSIVE buildTile(_, _, _)
\* TilesetBuilder::buildTile for the node that is visited as pos-th of the tree
buildTile(node, base, pos) ==
    LET firstChild == pos + 1
        childPos == [i \in 1..Len(node.children) |->
                        firstChild + Len(Flatten([j \in 1..(i - 1) |->
                                                    Traverse(node.children[j])]))]
    IN  [geometricError |-> node.geometricError,
         boundingVolume |-> buildBoundingVolume(TileRegion(node)),
         refine |-> "REPLACE",
         content |-> IF ~empty(node.mesh)
                     THEN <<generateContentUri(node.lodLevel, AddressOf(base, pos))>>
                     ELSE <<>>,
         children |-> [i \in 1..Len(node.children) |->
                          buildTile(node.children[i], base, childPos[i])]]

\* TilesetBuilder::buildTileset: what generateTilesetJson writes to tileset.json
buildTileset(root, base) ==
    [asset |-> [version |-> "1.1", generator |-> "LOD Generator"],
     geometricError |-> calculateGeometricError(root),
     root |-> buildTile(root, base, 1)]

----------------------------------------------------------------------------
(* The tileset export run twice on one tree *)

HeapBases == 0..MaxHeapBase

\* the configurations the exported trees are built with
TileLodConfigs ==
    { LodConfig(TriangleCountStrategy(0, <<1, 2>>), 1, FALSE, DefaultOctreeConfig),
      LodConfig(TriangleCountStrategy(1, <<1, 2>>), 1, FALSE, DefaultOctreeConfig),
      LodConfig(TriangleCountStrategy(0, <<1, 2>>), 1, TRUE,
                OctreeConfig(1, MaxOctreeDepth, <<1, 1000>>)) }

\* the trees handed to the exporter: what buildLodHierarchy returns for the
\* smaller input meshes
TileTrees ==
    UNION { UNION { { buildLodHierarchy(m, b, c, <<>>) : c \in TileLodConfigs } :
                    b \in BoundsFor(m) } :
            m \in LodInputMeshes \ {StripMesh} } \ { <<>> }

TilesInit ==
    /\ MeshIdle
    /\ LodIdle
    /\ PipeIdle
    /\ CrsIdle
    /\ collapses = <<>>
    /\ tileTree \in TileTrees
    /\ manifests = <<>>
    /\ exported = <<>>

\* one execution of B3dmExporter::generateTilesetJson on the tree; two are made
DoGenerateTilesetJson ==
    /\ tileTree # <<>>
    /\ Len(manifests) < 2
    /\ \E base \in HeapBases : manifests' = Append(manifests, buildTileset(tileTree[1], base))
    /\ UNCHANGED <<tileTree, exported, meshVars, collapses, lodVars, pipeVars, crsVars>>

\* exportRecursive: "level_" level "_" address ".b3dm" under basePath / "tiles"
tileFilename(lodLevel, address) == <<"tiles", "level_", lodLevel, "_", address, ".b3dm">>

\* exportRecursive: the paths of the tile files, parents first.  The address
\* in a name is that of the object the visit refers to: the caller's root, or
\* the core::LodNode made from *child for the call
TileFilePaths(root, base) ==
    LET nodes == Traverse(root)
        withMesh == SelectSeq([i \in 1..Len(nodes) |-> i], LAMBDA i : ~empty(nodes[i].mesh))
    IN  [k \in 1..Len(withMesh) |->
            tileFilename(nodes[withMesh[k]].lodLevel, AddressOf(base, withMesh[k]))]

\* one execution of B3dmExporter::exportTileset on the tree.  generateContentUri
\* takes a core::LodNode made from the node it is handed, which lies at
\* uriBase; the root exportRecursive visits is alive at that time and lies
\* elsewhere, at nodeBase
DoExportTileset ==
    /\ tileTree # <<>>
    /\ exported = <<>>
    /\ \E uriBase \in HeapBases, nodeBase \in HeapBases, jsonOutcome \in {"ok", "WriteError"},
          tileFail \in 0..1, tileOutcome \in {"open", "write"} :
          LET paths == TileFilePaths(tileTree[1], nodeBase)
              run == exportTileset(tileTree[1], jsonOutcome, tileFail, tileOutcome)
              tileWrites == SelectSeq(run.writes, LAMBDA w : w.file # TilesetJsonFile)
          IN  /\ uriBase # nodeBase
              /\ exported' = <<[error |-> run.error,
                                manifest |-> IF jsonOutcome = "ok"
                                             THEN <<buildTileset(tileTree[1], uriBase)>>
                                             ELSE <<>>,
                                files |-> [k \in 1..Len(tileWrites) |-> paths[k]]]>>
    /\ UNCHANGED <<tileTree, manifests, meshVars, collapses, lodVars, pipeVars, crsVars>>

TilesNext == DoGenerateTilesetJson \/ DoExportTileset

SpecTiles == TilesInit /\ [][TilesNext]_vars

\* C16: determinism of the manifest.  Two executions of the tileset export on
\* the same LOD tree write the same tileset.json content: the id in a content
\* URI depends on the position of the node in the tree only.
C16_ManifestDeterministic ==
    Len(manifests) = 2 => manifests[1] = manifests[2]

\* a path below the output directory as the generic string a URI is compared
\* with: "tiles" / "level_..." reads "tiles/level_..."
GenericString(path) == <<"tiles/level_">> \o SubSeq(path, 3, Len(path))

\* the content URIs of the manifest an exportTileset wrote
ExportedUris ==
    IF exported = <<>> \/ exported[1].manifest = <<>> THEN {}
    ELSE { t.content[1] : t \in { u \in Range(Traverse(exported[1].manifest[1].root)) :
                                      u.content # <<>> } }

\* the tile files an exportTileset wrote, relative to the output directory
ExportedFiles ==
    IF exported = <<>> THEN {} ELSE { GenericString(f) : f \in Range(exported[1].files) }

\* C29: the manifest and the tile files agree.  After a successful
\* exportTileset the content URIs of tileset.json are exactly the paths of the
\* .b3dm files written, relative to the output directory, and there is one
\* such file for each node of the tree that has a mesh.
C29_ManifestMatchesFiles ==
    (exported # <<>> /\ exported[1].error = "none") =>
        /\ ExportedUris = ExportedFiles
        /\ Cardinality(ExportedFiles)
               = Cardinality({ i \in 1..Len(Traverse(tileTree[1])) :
                                 ~empty(Traverse(tileTree[1])[i].mesh) })

----------------------------------------------------------------------------
(* Further claims about the driver and the pipeline (Spec) *)

\* some input path does not exist, or an input list is empty
InputMissing(inputConfig) ==
    \/ inputConfig.holds # "path" /\ inputConfig.exists = <<>>
    \/ \E i \in 1..Len(inputConfig.exists) : ~inputConfig.exists[i]

\* C17: pre-flight validation.  validateConfig returns ConfigError if and only
\* if an input path does not exist (or an input list is empty), the output
\* format set is empty, or no strategy is configured; when validation fails in
\* the command-line driver, no pipeline stage is invoked and the exit code is 1.
C17_PreflightValidation ==
    /\ validation # "none" =>
          (validation = "ConfigError" <=>
              \/ InputMissing(config_.inputConfig)
              \/ config_.outputFormats = <<>>
              \/ config_.lodConfig.strategy = NoStrategy)
    /\ (validation = "ConfigError" /\ pc # "validated") =>
          /\ pc = "exited"
          /\ exitCode = "1"
          /\ stagesCalled = <<>>

\* C17 witness: the driver has exited with 1 on a list that names a missing file
C17_Witness ==
    /\ pc = "exited"
    /\ validation = "ConfigError"
    /\ config_.inputConfig.holds = "PlyFileInfo"
    /\ Len(config_.inputConfig.exists) = 2
    /\ exitCode = "1"
    /\ stagesCalled = <<>>

\* the driver was started with --dry-run
DryRun == pc \notin {"validate", "validated"} /\ opts.parseOk /\ opts.dryRun

ModeUsed == IF "region" \in DOMAIN tree[1] THEN "Geographic" ELSE "Geometric"

\* C19: mode selection.  With mode=geometric the pipeline builds a geometric
\* tree and with mode=geo a geographic tree, whatever the kind of input; with
\* mode=auto it builds a geographic tree if and only if the input supplies
\* geographic metadata; the lodMode of the result is the mode actually used.
C19_ModeSelection ==
    (pc = "stats" /\ tree # <<>>) =>
        /\ opts.mode = "geometric" => ModeUsed = "Geometric"
        /\ opts.mode = "geo" => ModeUsed = "Geographic"
        /\ opts.mode = "auto" => (ModeUsed = "Geographic" <=> loaded[2].holds = "GeoBBox")
        /\ result.lodMode = ModeUsed

----------------------------------------------------------------------------
(* Claims about the subdivision of bounds (SpecLod) *)

\* the grid on which every corner of a box handed to subdivide, and every
\* corner of a box it returns, lies
HalfUnit == Unit \div 2
GridLines == {k * HalfUnit : k \in -2..3}

\* the grid cell with lower corner p has interior points in box b
CellInBox(p, b) == \A a \in 1..3 : b.min[a] <= p[a] /\ p[a] + HalfUnit <= b.max[a]

CellInRegion(p, r) ==
    /\ r.minLon <= p[1] /\ p[1] + HalfUnit <= r.maxLon
    /\ r.minLat <= p[2] /\ p[2] + HalfUnit <= r.maxLat

\* box k covers the upper half of parent b along axis a, or the lower half
UpperHalf(k, b, a) == 2 * k.min[a] = b.min[a] + b.max[a] /\ k.max[a] = b.max[a]
LowerHalf(k, b, a) == k.min[a] = b.min[a] /\ 2 * k.max[a] = b.min[a] + b.max[a]

\* bit a-1 of the child index i
BitSet(i, a) == (i \div (2 ^ (a - 1))) % 2 = 1

BoxPartition(b, kids) ==
    /\ Len(kids) = 8
    /\ \A i \in 1..8 : \A a \in 1..3 :
          kids[i].min[a] >= b.min[a] /\ kids[i].max[a] <= b.max[a]
    /\ \A p \in GridLines \X GridLines \X GridLines :
          /\ CellInBox(p, b) => \E i \in 1..8 : CellInBox(p, kids[i])
          /\ \A i, j \in 1..8 : (CellInBox(p, kids[i]) /\ CellInBox(p, kids[j])) => i = j
    /\ \A i \in 0..7 : \A a \in 1..3 :
          IF BitSet(i, a) THEN UpperHalf(kids[i + 1], b, a) ELSE LowerHalf(kids[i + 1], b, a)

RegionPartition(r, kids) ==
    LET midLon2 == r.minLon + r.maxLon
        midLat2 == r.minLat + r.maxLat
        west(k) == k.minLon = r.minLon /\ 2 * k.maxLon = midLon2
        east(k) == 2 * k.minLon = midLon2 /\ k.maxLon = r.maxLon
        south(k) == k.minLat = r.minLat /\ 2 * k.maxLat = midLat2
        north(k) == 2 * k.minLat = midLat2 /\ k.maxLat = r.maxLat
    IN  /\ Len(kids) = 4
        /\ south(kids[1]) /\ west(kids[1])
        /\ south(kids[2]) /\ east(kids[2])
        /\ north(kids[3]) /\ west(kids[3])
        /\ north(kids[4]) /\ east(kids[4])
        /\ \A i \in 1..4 :
              /\ kids[i].minLon >= r.minLon /\ kids[i].maxLon <= r.maxLon
              /\ kids[i].minLat >= r.minLat /\ kids[i].maxLat <= r.maxLat
        /\ \A p \in GridLines \X GridLines :
              /\ CellInRegion(p, r) => \E i \in 1..4 : CellInRegion(p, kids[i])
              /\ \A i, j \in 1..4 :
                    (CellInRegion(p, kids[i]) /\ CellInRegion(p, kids[j])) => i = j

\* C20: subdivision is a partition of the bounds.  For every non-empty
\* BoundingBox subdivide() returns 8 boxes, pairwise interior-disjoint, each
\* inside the parent, with the parent as their union, child i covering the
\* upper half in x, y, z iff bit 0, 1, 2 of i is set; for every non-empty
\* GeoBBox subdivide() returns 4 rectangles in the order SW, SE, NW, NE that
\* are disjoint and cover the parent in the same way.
C20_SubdivisionIsPartition ==
    /\ (lodOp = "subdivide_done" /\ ~emptyBox(lodBounds.value)) =>
          BoxPartition(lodBounds.value, subdivided)
    /\ (lodOp = "subdivideGeo_done" /\ ~emptyRegion(lodBounds.value)) =>
          RegionPartition(lodBounds.value, subdivided)

\* C20 witness: a box that does not start at the origin and is longer along z
\* than along y has been subdivided
C20_Witness ==
    /\ lodOp = "subdivide_done"
    /\ lodBounds.value = BoundingBox(<<-Unit, Unit, -Unit>>, <<Unit, 2 * Unit, 2 * Unit>>)
    /\ Len(subdivided) = 8
    /\ subdivided[2] = BoundingBox(<<0, Unit, -Unit>>, <<Unit, Unit + HalfUnit, HalfUnit>>)

----------------------------------------------------------------------------
(* Further claims about the trees of buildLodHierarchy (SpecLod) *)

\* rectangle k lies in rectangle r, component-wise
RegionWithin(k, r) ==
    /\ k.minLon >= r.minLon /\ k.maxLon <= r.maxLon
    /\ k.minLat >= r.minLat /\ k.maxLat <= r.maxLat

BoxWithin(k, b) == \A a \in 1..3 : k.min[a] >= b.min[a] /\ k.max[a] <= b.max[a]

\* the bounds of child k lie in the bounds of its parent n
BoundsWithin(k, n) ==
    IF "region" \in DOMAIN n THEN RegionWithin(k.region, n.region)
    ELSE BoxWithin(k.bounds, n.bounds)

\* the region entry of a tile of the manifest, as a rectangle
ManifestRegion(tile) ==
    GeoBBox(tile.boundingVolume[1], tile.boundingVolume[2],
            tile.boundingVolume[3], tile.boundingVolume[4])

\* the tiles of the manifest written for the tree returned
ManifestTiles == IF lodOut = <<>> THEN {} ELSE Range(Traverse(buildTile(lodOut[1], 0, 1)))

\* C21: LOD tree structure.  In every tree buildLodHierarchy returns, in any
\* mode, the root has level 0, every child's level is its parent's plus 1 and
\* every child's bounds lie in its parent's bounds; so does every child
\* region of the manifest written for the tree.
C21_TreeStructure ==
    (lodOp = "hierarchy_done" /\ lodOut # <<>>) =>
        /\ lodOut[1].lodLevel = 0
        /\ \A n \in LodNodes : \A i \in 1..Len(n.children) :
              /\ n.children[i].lodLevel = n.lodLevel + 1
              /\ BoundsWithin(n.children[i], n)
        /\ \A t \in ManifestTiles : \A i \in 1..Len(t.children) :
              RegionWithin(ManifestRegion(t.children[i]), ManifestRegion(t))

\* C21 witness: a geographic tree with a grandchild of the root has been returned
C21_Witness ==
    /\ lodOp = "hierarchy_done"
    /\ lodOut # <<>>
    /\ lodBounds.holds = "GeoBBox"
    /\ \E n \in LodNodes : n.lodLevel = 2 /\ RegionWithin(n.region, lodOut[1].region)

\* the largest per-axis extent of the bounds of node n
LargestExtent(n) ==
    IF "region" \in DOMAIN n
    THEN IF width(n.region) >= height(n.region) THEN width(n.region) ELSE height(n.region)
    ELSE LET sz == size(n.bounds)
         IN  CHOOSE e \in {sz[1], sz[2], sz[3]} : \A a \in 1..3 : sz[a] <= e

\* C22: root geometric error.  In every tree buildLodHierarchy returns, the
\* root's geometricError equals the largest per-axis extent (max - min) of the
\* root's bounds.
C22_RootGeometricError ==
    (lodOp = "hierarchy_done" /\ lodOut # <<>>) =>
        lodOut[1].geometricError[1] = LargestExtent(lodOut[1]) * lodOut[1].geometricError[2]

----------------------------------------------------------------------------
(* geo/CRS.cpp : the CRS factory functions *)

MaxCodeSuffix == 2     \* characters after "EPSG:" in the generated code strings

\* std::numeric_limits<int>::max()
IntMax == 2147483647

CRS(code) == [code |-> code]

Digits == <<"0", "1", "2", "3", "4", "5", "6", "7", "8", "9">>

IsDigit(ch) == \E d \in 1..10 : Digits[d] = ch
DigitValue(ch) == (CHOOSE d \in 1..10 : Digits[d] = ch) - 1

\* std::isspace, for the characters that occur
IsSpace(ch) == ch \in {" ", "\t", "\n"}

EPSG == <<"E", "P", "S", "G", ":">>

\* the code string "EPSG:" followed by the characters of suffix
EpsgCode(suffix) == EPSG \o suffix

\* the keys of the map validCodes of isValidCRS
validCodes ==
    { EpsgCode(<<"4", "3", "2", "6">>), EpsgCode(<<"3", "8", "5", "7">>),
      EpsgCode(<<"4", "2", "6", "9">>), EpsgCode(<<"4", "9", "7", "9">>),
      EpsgCode(<<"3", "2", "6", "4", "9">>), EpsgCode(<<"3", "2", "6", "5", "0">>),
      EpsgCode(<<"2", "1", "5", "4">>), EpsgCode(<<"2", "5", "8", "3", "2">>) }

isValidCRS(code) == code \in validCodes

createCRS(code) == IF isValidCRS(code) THEN <<CRS(code)>> ELSE <<>>

\* std::string::substr(pos), for pos <= length
substr(str, pos) == SubSeq(str, pos + 1, Len(str))

RECURSIVE stoiDigits(_, _, _)
\* the digits of str from position i on, accumulated onto acc as strtol does:
\* the value, or "out_of_range" once it no longer fits an int
stoiDigits(str, i, acc) ==
    IF i > Len(str) \/ ~IsDigit(str[i]) THEN [threw |-> "none", value |-> acc]
    ELSE IF acc > (IntMax - DigitValue(str[i])) \div 10
    THEN [threw |-> "out_of_range", value |-> 0]
    ELSE stoiDigits(str, i + 1, 10 * acc + DigitValue(str[i]))

\* std::stoi(str): leading white space is skipped, a sign is accepted, the
\* digits that follow are converted and whatever comes after them is ignored;
\* std::invalid_argument if there is no digit
stoi(str) ==
    LET spaces == {i \in 1..Len(str) : \A j \in 1..i : IsSpace(str[j])}
        first == Cardinality(spaces) + 1
        signed == first <= Len(str) /\ str[first] \in {"+", "-"}
        start == IF signed THEN first + 1 ELSE first
        magnitude == stoiDigits(str, start, 0)
    IN  IF start > Len(str) \/ ~IsDigit(str[start])
        THEN [threw |-> "invalid_argument", value |-> 0]
        ELSE IF magnitude.threw # "none" THEN magnitude
        ELSE [threw |-> "none",
              value |-> IF signed /\ str[first] = "-" THEN -magnitude.value
                        ELSE magnitude.value]

\* str.find("EPSG:") == 0
StartsWithEpsg(str) == Len(str) >= 5 /\ SubSeq(str, 1, 5) = EPSG

parseCRSFromString(crsString) ==
    IF StartsWithEpsg(crsString) /\ Len(crsString) > 5
    THEN LET epsgCode == stoi(substr(crsString, 5))
         IN  IF epsgCode.threw = "none" /\ epsgCode.value > 0
             THEN <<CRS(crsString)>> ELSE <<>>
    ELSE <<>>

\* the characters the generated suffixes are made of
SuffixChars == {"0", "1", "-", "a", " "}

\* the code strings handed to the factory functions: the codes of the list,
\* further EPSG codes, and strings that are no EPSG code
CodeStrings ==
    validCodes
    \cup { EpsgCode(suffix) : suffix \in SeqsUpTo(SuffixChars, MaxCodeSuffix) }
    \cup { <<>>, <<"4", "3", "2", "6">>, <<"e", "p", "s", "g", ":", "4", "3", "2", "6">>,
           <<"I", "N", "V", "A", "L", "I", "D", "_", "C", "R", "S">>,
           EpsgCode(<<"9", "9", "9", "9">>), EpsgCode(<<"4", "3", "2", "6", "x">>),
           EpsgCode(<<"9", "9", "9", "9", "9", "9", "9", "9", "9", "9">>),
           <<" ">> \o EpsgCode(<<"4", "3", "2", "6">>) }

CrsInit ==
    /\ MeshIdle
    /\ LodIdle
    /\ PipeIdle
    /\ TilesIdle
    /\ collapses = <<>>
    /\ crsOp \in {"createCRS", "parseCRSFromString"}
    /\ crsCode \in CodeStrings
    /\ crsOut = <<>>

DoCreateCRS ==
    /\ crsOp = "createCRS"
    /\ crsOut' = createCRS(crsCode)
    /\ crsOp' = "createCRS_done"
    /\ UNCHANGED <<crsCode, meshVars, collapses, lodVars, pipeVars, tileVars>>

DoParseCRSFromString ==
    /\ crsOp = "parseCRSFromString"
    /\ crsOut' = parseCRSFromString(crsCode)
    /\ crsOp' = "parseCRSFromString_done"
    /\ UNCHANGED <<crsCode, meshVars, collapses, lodVars, pipeVars, tileVars>>

CrsNext == DoCreateCRS \/ DoParseCRSFromString

SpecCrs == CrsInit /\ [][CrsNext]_vars

\* C23: CRS allow-list.  Each function that creates a CRS from a code string,
\* createCRS and parseCRSFromString, returns a CRS if and only if the code is
\* one of the eight codes of the list; every other string is rejected.
C23_CrsAllowList ==
    crsOp \in {"createCRS_done", "parseCRSFromString_done"} =>
        (crsOut # <<>> <=> crsCode \in validCodes)

----------------------------------------------------------------------------
(* Further claims about LodPipeline::execute (Spec) *)

\* C24: progress is monotone.  Over a run of LodPipeline::execute, successful
\* or failing at any stage, the values handed to the progress callback never
\* decrease, each lies in [0, 1] (0..10 tenths), and 1.0 is reported only in a
\* run that ends with success = true.
C24_ProgressMonotone ==
    /\ \A i \in 1..Len(progress) : progress[i] >= 0 /\ progress[i] <= 10
    /\ \A i \in 1..Len(progress) : \A j \in i..Len(progress) : progress[i] <= progress[j]
    /\ (\E i \in 1..Len(progress) : progress[i] = 10) => result.success

\* C24 witness: a run that failed in the export stage has returned, with the
\* four values of the stages reported
C24_Witness ==
    /\ pc = "returned"
    /\ stageError = "OutputError"
    /\ progress = <<1, 3, 5, 8>>
    /\ ~result.success

----------------------------------------------------------------------------
(* Further claims about the partitioner (SpecLod) *)

RECURSIVE OctreeNodes(_)
\* the nodes of a tree of buildOctree
OctreeNodes(node) ==
    {node} \cup UNION { IF node.children[i] = <<>> THEN {}
                        ELSE OctreeNodes(node.children[i][1]) : i \in 1..8 }

\* the triangle centre (times 3) lies on a subdivision plane of box b
OnSubdivisionPlane(centerSum, b) ==
    \E a \in 1..3 : 2 * centerSum[a] = 3 * (b.min[a] + b.max[a])

\* the triangle centre (times 3) lies in the closed box k
CentreIn(centerSum, k) ==
    \A a \in 1..3 : 3 * k.min[a] <= centerSum[a] /\ centerSum[a] <= 3 * k.max[a]

\* the sub-bounds of b, by index, that contain the triangle centre
ChildrenAround(centerSum, b) == {i \in 1..8 : CentreIn(centerSum, subdivide(b)[i])}

\* the triangles routed to node n by the partitioner: those of the leaves below it
RoutedTo(n) == Range(LeafTriangles(n))

\* the tie-break in a tree of the legacy buildOctree, whose nodes keep their lists
LegacyTieBreak ==
    \A n \in Range(Traverse(octreeOut[1])) :
        n.children # <<>> =>
            \A k \in 1..Len(n.triangleIndices) :
                LET t == n.triangleIndices[k]
                    centerSum == triangleCenterSum(lodMesh, t)
                    around == ChildrenAround(centerSum, n.bounds)
                IN  (OnSubdivisionPlane(centerSum, n.bounds) /\ around # {}) =>
                        \A i \in 1..Len(n.children) :
                            (\E q \in 1..Len(n.children[i].triangleIndices) :
                                 n.children[i].triangleIndices[q] = t)
                            <=> n.children[i].bounds = subdivide(n.bounds)[MinOf(around)]

\* the tie-break in a tree of buildOctree(mesh, config)
OctreeTieBreak ==
    \A n \in OctreeNodes(octreeOut[1]) :
        ~isLeafOctree(n) =>
            \A t \in RoutedTo(n) :
                LET centerSum == triangleCenterSum(lodMesh, t)
                    around == ChildrenAround(centerSum, n.bounds)
                IN  (OnSubdivisionPlane(centerSum, n.bounds) /\ around # {}) =>
                        \A i \in 1..8 :
                            (n.children[i] # <<>> /\ t \in RoutedTo(n.children[i][1]))
                            <=> i = MinOf(around)

\* C25: centroid tie-break.  When the partitioner subdivides a node, a
\* triangle whose centroid lies exactly on a subdivision plane is routed to
\* exactly one child: the lowest-index child among those whose closed
\* sub-bounds contain the centroid.
C25_CentroidTieBreak ==
    /\ (lodOp = "octreeLegacy_done" /\ octreeOut # <<>>) => LegacyTieBreak
    /\ (lodOp = "octree_done" /\ octreeOut # <<>>) => OctreeTieBreak

\* volume v is at least the cube of minNodeSize = <<num, den>>
AtLeastCube(v, minNodeSize) ==
    LET num3 == minNodeSize[1] * minNodeSize[1] * minNodeSize[1]
        den3 == minNodeSize[2] * minNodeSize[2] * minNodeSize[2]
    IN  v >= (num3 + den3 - 1) \div den3

\* C26: partition limits.  In every tree buildOctree returns, every node has
\* depth <= maxDepth and a child's depth is its parent's plus 1; a node has
\* children only if more than maxTrianglesPerNode triangles were routed to it,
\* its depth is < maxDepth and its volume is >= minNodeSize cubed; every
\* internal node has an empty triangle list and every non-root node was
\* created with at least one triangle routed to it.
C26_PartitionLimits ==
    (lodOp = "octree_done" /\ octreeOut # <<>>) =>
        LET config == lodConfig.octreeConfig
        IN  \A n \in OctreeNodes(octreeOut[1]) :
                /\ n.depth <= config.maxDepth
                /\ \A i \in 1..8 :
                      n.children[i] # <<>> =>
                          /\ n.children[i][1].depth = n.depth + 1
                          /\ RoutedTo(n.children[i][1]) # {}
                /\ ~isLeafOctree(n) =>
                      /\ Cardinality(RoutedTo(n)) > config.maxTrianglesPerNode
                      /\ n.depth < config.maxDepth
                      /\ AtLeastCube(volume(n.bounds), config.minNodeSize)
                      /\ n.triangleIndices = <<>>

\* C26 witness: a tree of depth 2 whose root and one child were subdivided
C26_Witness ==
    /\ lodOp = "octree_done"
    /\ octreeOut # <<>>
    /\ lodConfig.octreeConfig.maxDepth = 2
    /\ \E n \in OctreeNodes(octreeOut[1]) :
          n.depth = 1 /\ ~isLeafOctree(n) /\ n.triangleIndices = <<>>
    /\ \E n \in OctreeNodes(octreeOut[1]) :
          n.depth = 2 /\ n.triangleIndices # <<>>

\* the nodes below the root of the tree the build stage published
PublishedBelowRoot ==
    UNION { Range(Traverse(tree[1].children[i])) : i \in 1..Len(tree[1].children) }

\* C27: empty simplification output is an error.  If the simplification
\* kernel returns zero triangles for a non-empty sub-mesh while the LOD tree
\* is built, the build stage fails with ProcessingError and no tree is
\* published; so every non-root node of a tree the build stage published has
\* a non-empty mesh.
C27_EmptySimplificationIsError ==
    (tree # <<>> /\ stageError = "none") =>
        \A n \in PublishedBelowRoot : ~empty(n.mesh)

----------------------------------------------------------------------------
(* Further claims about merge and subset (SpecMesh) *)

\* each attribute array of m is empty or as long as the positions array
AttributesAligned(m) ==
    /\ Len(m.normals) \in {0, Len(m.positions)}
    /\ Len(m.texCoords) \in {0, Len(m.positions)}
    /\ Len(m.colors) \in {0, Len(m.positions)}

\* the lists of at most one triangle id of mesh m
ShortIdLists(m) == SeqsUpTo(0..(triangleCount(m) - 1), 1)

\* C28: attribute arrays stay aligned under merge and subset.  If in every
\* input mesh each of normals, texCoords and colors is empty or as long as
\* positions, the same holds in the mesh Mesh::merge returns for any list of
\* meshes, also when only some carry an attribute, and in the mesh
\* Mesh::subset returns for that result.
C28_AttributesAligned ==
    (meshOp = "merge_done" /\ \A i \in 1..Len(meshIn) : AttributesAligned(meshIn[i])) =>
        /\ AttributesAligned(meshOut)
        /\ \A tris \in ShortIdLists(meshOut) : AttributesAligned(subset(meshOut, tris))

----------------------------------------------------------------------------
(* Further claims about the order of the children (SpecLod) *)

\* rectangle k is the quadrant of r with subdivision index i: SW, SE, NW, NE
IsQuadrant(k, r, i) ==
    /\ IF BitSet(i - 1, 1) THEN k.minLon = centerLon(r) /\ k.maxLon = r.maxLon
                           ELSE k.minLon = r.minLon /\ k.maxLon = centerLon(r)
    /\ IF BitSet(i - 1, 2) THEN k.minLat = centerLat(r) /\ k.maxLat = r.maxLat
                           ELSE k.minLat = r.minLat /\ k.maxLat = centerLat(r)

\* box k is the octant of b with subdivision index i: bit 0 is x, bit 1 y, bit 2 z
IsOctant(k, b, i) ==
    \A a \in 1..3 :
        IF BitSet(i - 1, a) THEN k.min[a] = center(b)[a] /\ k.max[a] = b.max[a]
                            ELSE k.min[a] = b.min[a] /\ k.max[a] = center(b)[a]

\* child k of node n covers the sub-bounds of n with subdivision index i
IsSubBounds(k, n, i) ==
    IF "region" \in DOMAIN n THEN i <= 4 /\ IsQuadrant(k.region, n.region, i)
    ELSE IsOctant(k.bounds, n.bounds, i)

RECURSIVE InIndexOrder(_, _, _)
\* the children kids of n cover sub-bounds of indices from..8 that increase strictly
InIndexOrder(kids, n, from) ==
    \/ kids = <<>>
    \/ \E i \in from..8 : IsSubBounds(kids[1], n, i) /\ InIndexOrder(Tail(kids), n, i + 1)

RECURSIVE TileFollows(_, _)
\* the tile lists the children of the node it was written for one by one, in
\* the order of the node
TileFollows(tile, node) ==
    /\ tile.boundingVolume = buildBoundingVolume(TileRegion(node))
    /\ Len(tile.children) = Len(node.children)
    /\ \A i \in 1..Len(node.children) : TileFollows(tile.children[i], node.children[i])

\* C30: deterministic child order.  In every tree buildLodHierarchy returns,
\* the children of each node come in strictly increasing subdivision index
\* order (SW, SE, NW, NE; octant 0..7, in the recursive and in the
\* octree-guided path), a skipped sub-bounds leaving no entry, and the
\* manifest lists the children of each tile in that same order.
C30_ChildOrder ==
    (lodOp = "hierarchy_done" /\ lodOut # <<>>) =>
        /\ \A n \in LodNodes : InIndexOrder(n.children, n, 1)
        /\ TileFollows(buildTile(lodOut[1], 0, 1), lodOut[1])

\* a sub-bounds of n between two that have a child has none
SkippedBetween(n) ==
    LET covered(i) == \E k \in 1..Len(n.children) : IsSubBounds(n.children[k], n, i)
    IN  \E i \in 2..7 : /\ ~covered(i)
                        /\ \E j \in 1..(i - 1) : covered(j)
                        /\ \E j \in (i + 1)..8 : covered(j)

\* C30 witness: the recursive geometric path returned a tree in which a node
\* has children on both sides of a skipped octant
C30_Witness ==
    /\ lodOp = "hierarchy_done"
    /\ lodOut # <<>>
    /\ lodBounds.holds = "BoundingBox"
    /\ ~lodConfig.useOctreeSubdivision
    /\ \E n \in LodNodes : SkippedBetween(n) /\ InIndexOrder(n.children, n, 1)

====
